---- MODULE Spec2Model ----
(***************************************************************************)
(* A model of the DNS server of src/main.rs: the sequential server loop    *)
(* (main), the handling of one inbound query (handle_query), the iterative *)
(* resolution from the root server (recursive_lookup) and one upstream     *)
(* round trip (lookup), with the delegation helpers of                     *)
(* src/dns/dns_packet.rs (get_ns, get_resolved_ns, get_unresolved_ns,      *)
(* get_random_a).                                                          *)
(*                                                                         *)
(* The network is the environment: what an inbound datagram decodes to and *)
(* what an upstream server answers are chosen nondeterministically from    *)
(* small sets.  Packets are held decoded, as DnsPacket values.             *)
(*                                                                         *)
(* A second specification, CodecSpec, models the wire codec of src/dns on   *)
(* the octets of one BytePacketBuffer: the cursor primitives, the name     *)
(* codec, and the header, question, record and packet codecs.              *)
(***************************************************************************)
EXTENDS Integers, Sequences, FiniteSets, TLC

(***************************************************************************)
(* Bounds of the model.                                                    *)
(***************************************************************************)
\* Upstream round trips modelled while one inbound query is handled.
MaxQueries == 4
\* Nested invocations of recursive_lookup below the outermost one.
MaxDepth == 2

(***************************************************************************)
(* Program constants.                                                      *)
(***************************************************************************)
BufferSize == 512
MaxDomainLen == 255
MaxLabelLen == 63
HeaderLen == 12

\* recursive_lookup starts every resolution at a.root-servers.net.
RootServer == "198.41.0.4"
Server2 == "192.0.2.2"
Server3 == "192.0.2.3"
HostAddr == "203.0.113.9"

(***************************************************************************)
(* Domain names.  The state holds a name as a string; Chars gives its      *)
(* octets, so that the code's string operations (ends_with, split, len)    *)
(* are computed on the characters.                                         *)
(***************************************************************************)
LongName == "a{256}"

Chars(name) ==
    CASE name = "" -> << >>
      [] name = "com" -> <<"c", "o", "m">>
      [] name = "org" -> <<"o", "r", "g">>
      [] name = "a.com" -> <<"a", ".", "c", "o", "m">>
      [] name = "ns.com" -> <<"n", "s", ".", "c", "o", "m">>
      [] name = "ns2.com" -> <<"n", "s", "2", ".", "c", "o", "m">>
      [] name = "ns.org" -> <<"n", "s", ".", "o", "r", "g">>
      [] name = "ns.net" -> <<"n", "s", ".", "n", "e", "t">>
      [] name = "a.root" -> <<"a", ".", "r", "o", "o", "t">>
      [] name = "com." -> <<"c", "o", "m", ".">>
      [] name = "www.example.com" ->
            <<"w", "w", "w", ".", "e", "x", "a", "m", "p", "l", "e", ".", "c", "o", "m">>
      [] name = "WWW.Example.COM" ->
            <<"W", "W", "W", ".", "E", "x", "a", "m", "p", "l", "e", ".", "C", "O", "M">>
      [] name = LongName -> [i \in 1..256 |-> "a"]

\* str::ends_with: t is a suffix of s, octet by octet.
EndsWith(s, t) ==
    LET cs == Chars(s)
        ct == Chars(t)
    IN  /\ Len(ct) <= Len(cs)
        /\ SubSeq(cs, Len(cs) - Len(ct) + 1, Len(cs)) = ct

\* str::split("."): the lengths of the labels of a name, in order: a label lies
\* between two consecutive separators (or ends of the name).  The empty name
\* splits into one empty label.
LabelLens(cs) ==
    LET dots == {i \in 1..Len(cs) : cs[i] = "."}
        starts == {0} \cup dots
        ends == dots \cup {Len(cs) + 1}
        Kth(k) == CHOOSE b \in starts : Cardinality({y \in starts : y < b}) = k - 1
        EndOf(b) == CHOOSE e \in ends : e > b /\ \A y \in ends : y > b => e <= y
    IN  [k \in 1..Cardinality(starts) |-> EndOf(Kth(k)) - Kth(k) - 1]

\* write_question_name succeeds (leaving aside the room in the buffer).
NameEncodable(name) ==
    /\ Len(Chars(name)) <= MaxDomainLen
    /\ \A i \in DOMAIN LabelLens(Chars(name)) :
            LabelLens(Chars(name))[i] <= MaxLabelLen

RECURSIVE SumSeq(_)
SumSeq(s) == IF s = << >> THEN 0 ELSE Head(s) + SumSeq(Tail(s))

\* The octets write_question_name writes: per label its length octet and its
\* bytes, then the zero octet.
NameWireLen(name) ==
    LET ls == LabelLens(Chars(name))
    IN  SumSeq([i \in DOMAIN ls |-> 1 + ls[i]]) + 1

(***************************************************************************)
(* Packets.                                                                *)
(***************************************************************************)
DnsHeaderNew ==
    [id |-> 0,
     recursion_desired |-> FALSE,
     truncated_message |-> FALSE,
     authoritative_answer |-> FALSE,
     opcode |-> 0,
     response |-> FALSE,
     rescode |-> "NoError",
     checking_disabled |-> FALSE,
     authed_data |-> FALSE,
     z |-> FALSE,
     recursion_available |-> FALSE,
     questions |-> 0,
     answers |-> 0,
     authoritative_entries |-> 0,
     resource_entries |-> 0]

DnsPacketNew ==
    [header |-> DnsHeaderNew,
     questions |-> << >>,
     answers |-> << >>,
     authorities |-> << >>,
     resources |-> << >>]

DnsQuestionNew(q_name, q_type, q_class) ==
    [q_name |-> q_name, q_type |-> q_type, q_class |-> q_class]

\* The variants of DnsRecord, in one record shape: host is the target host of
\* NS, CNAME and MX, addr the address of A and AAAA.
RecA(domain, addr) ==
    [rtype |-> "A", domain |-> domain, host |-> "", addr |-> addr, ttl |-> 60]
RecNS(domain, host) ==
    [rtype |-> "NS", domain |-> domain, host |-> host, addr |-> "", ttl |-> 60]
RecCNAME(domain, host) ==
    [rtype |-> "CNAME", domain |-> domain, host |-> host, addr |-> "", ttl |-> 60]
RecUNHANDLED(domain) ==
    [rtype |-> "UNHANDLED", domain |-> domain, host |-> "", addr |-> "", ttl |-> 60]

\* Option<T>.
Some(v) == [some |-> TRUE, value |-> v]
NoneOpt == [some |-> FALSE, value |-> ""]

\* Result<DnsPacket, Box<dyn Error>>; NoResult stands for "no call has returned".
Ok(p) == [tag |-> "Ok", packet |-> p, error |-> ""]
Err(e) == [tag |-> "Err", packet |-> DnsPacketNew, error |-> e]
NoResult == [tag |-> "None", packet |-> DnsPacketNew, error |-> ""]

RECURSIVE Flatten(_)
Flatten(ss) == IF ss = << >> THEN << >> ELSE Head(ss) \o Flatten(Tail(ss))

\* Mutant of get_random_a: only the first answer is looked at.
get_random_a_FirstRecordOnly(p) ==
    IF p.answers # << >> /\ Head(p.answers).rtype = "A"
    THEN Some(Head(p.answers).addr)
    ELSE NoneOpt

\* DnsPacket::get_random_a: the address of the first A record among the answers.
get_random_a(p) ==
    LET IsA(r) == r.rtype = "A"
        as == SelectSeq(p.answers, IsA)
    IN  IF as = << >> THEN NoneOpt ELSE Some(Head(as).addr)

\* DnsPacket::get_ns: the NS records of the authority section whose domain the
\* question name ends with, in order.
get_ns(p, question_name) ==
    LET Keep(r) == r.rtype = "NS" /\ EndsWith(question_name, r.domain)
    IN  SelectSeq(p.authorities, Keep)

\* Mutant of get_resolved_ns: the additional section is walked first, the name
\* servers second.
get_resolved_ns_AdditionalFirst(p, question_name) ==
    LET ns == get_ns(p, question_name)
        IsGlue(r) == r.rtype = "A" /\ \E i \in DOMAIN ns : ns[i].host = r.domain
        rs == SelectSeq(p.resources, IsGlue)
    IN  IF rs = << >> THEN NoneOpt ELSE Some(Head(rs).addr)

\* DnsPacket::get_resolved_ns: for each such NS record in order, the addresses of
\* the A records of the additional section whose domain equals its host; the
\* first of them all.
get_resolved_ns(p, question_name) ==
    LET ns == get_ns(p, question_name)
        Glue(host) ==
            LET Match(r) == r.rtype = "A" /\ r.domain = host
                rs == SelectSeq(p.resources, Match)
            IN  [j \in DOMAIN rs |-> rs[j].addr]
        addrs == Flatten([i \in DOMAIN ns |-> Glue(ns[i].host)])
    IN  IF addrs = << >> THEN NoneOpt ELSE Some(Head(addrs))

\* DnsPacket::get_unresolved_ns: the host of the first such NS record.
get_unresolved_ns(p, qname) ==
    LET ns == get_ns(p, qname)
    IN  IF ns = << >> THEN NoneOpt ELSE Some(Head(ns).host)

\* DnsQuestion::write: the name, the type and the class.
QuestionWireLen(q) == NameWireLen(q.q_name) + 4

\* DnsRecord::write: name, type, class, ttl and data length (10 octets), then the
\* data; an UNHANDLED record writes nothing.
RecordWireLen(r) ==
    CASE r.rtype = "A" -> NameWireLen(r.domain) + 10 + 4
      [] r.rtype = "AAAA" -> NameWireLen(r.domain) + 10 + 16
      [] r.rtype \in {"NS", "CNAME"} ->
            NameWireLen(r.domain) + 10 + NameWireLen(r.host)
      [] r.rtype = "MX" -> NameWireLen(r.domain) + 10 + 2 + NameWireLen(r.host)
      [] OTHER -> 0

RecordEncodable(r) ==
    CASE r.rtype \in {"A", "AAAA"} -> NameEncodable(r.domain)
      [] r.rtype \in {"NS", "CNAME", "MX"} ->
            NameEncodable(r.domain) /\ NameEncodable(r.host)
      [] OTHER -> TRUE

\* DnsPacket::write: the header counts are set from the lengths of the sections,
\* then the header and the sections are written.  ok: no write failed (every
\* name is within the limits and no octet is written at or past the capacity);
\* position: the cursor after a successful write.
PacketWrite(p) ==
    LET hdr == [p.header EXCEPT !.questions = Len(p.questions),
                                !.answers = Len(p.answers),
                                !.authoritative_entries = Len(p.authorities),
                                !.resource_entries = Len(p.resources)]
        recs == p.answers \o p.authorities \o p.resources
        len == HeaderLen
               + SumSeq([i \in DOMAIN p.questions |-> QuestionWireLen(p.questions[i])])
               + SumSeq([i \in DOMAIN recs |-> RecordWireLen(recs[i])])
        enc == /\ \A i \in DOMAIN p.questions : NameEncodable(p.questions[i].q_name)
               /\ \A i \in DOMAIN recs : RecordEncodable(recs[i])
    IN  [ok |-> enc /\ len <= BufferSize,
         packet |-> [p EXCEPT !.header = hdr],
         position |-> len]

\* Mutant of GetRangeOk: a range that ends on the last octet is accepted.
GetRangeOk_UpToLastOctet(start, length) == start + length <= BufferSize

\* BytePacketBuffer::get_range succeeds.
GetRangeOk(start, length) == ~(start + length >= BufferSize)

(***************************************************************************)
(* The environment: inbound datagrams and upstream answers.                *)
(***************************************************************************)
Request(id, questions) ==
    [DnsPacketNew EXCEPT !.header.id = id,
                         !.header.recursion_desired = TRUE,
                         !.header.questions = Len(questions),
                         !.questions = questions]

Requests ==
    { Request(7, << >>),
      Request(7, <<DnsQuestionNew("a.com", "A", "IN")>>),
      Request(9, <<DnsQuestionNew("a.com", "MX", "IN")>>),
      Request(7, <<DnsQuestionNew(LongName, "A", "IN")>>),
      Request(9, <<DnsQuestionNew("ns.net", "A", "IN"),
                   DnsQuestionNew("a.com", "A", "IN")>>) }

\* What handle_query gets from the socket: recv_from fails, or a datagram is
\* received and DnsPacket::from_buffer fails on it or decodes it.
Inbound ==
    {[tag |-> "RecvErr", error |-> "recv_from", packet |-> DnsPacketNew]}
    \cup {[tag |-> "DecodeErr", error |-> e, packet |-> DnsPacketNew] :
            e \in {"from_buffer: EndOfBuffer", "from_buffer: ExceededJumpCount"}}
    \cup {[tag |-> "Ok", error |-> "", packet |-> r] : r \in Requests}

NoInbound == [tag |-> "None", error |-> "", packet |-> DnsPacketNew]

Response(rescode, answers, authorities, resources) ==
    [DnsPacketNew EXCEPT !.header.id = 6666,
                         !.header.response = TRUE,
                         !.header.rescode = rescode,
                         !.header.answers = Len(answers),
                         !.header.authoritative_entries = Len(authorities),
                         !.header.resource_entries = Len(resources),
                         !.answers = answers,
                         !.authorities = authorities,
                         !.resources = resources]

\* An answer.
RespAnswer == Response("NoError", <<RecA("a.com", HostAddr)>>, << >>, << >>)
\* An answer whose first A record is not its first record.
RespNsAddr ==
    Response("NoError",
             <<RecCNAME("ns.net", "ns.com"), RecA("ns.com", Server3)>>, << >>, << >>)
\* An answer that holds no A record.
RespUnknown == Response("NoError", <<RecUNHANDLED("a.com")>>, << >>, << >>)
\* An answer that names a host whose name cannot be encoded.
RespLongAnswer == Response("NoError", <<RecCNAME("a.com", LongName)>>, << >>, << >>)
\* A negative answer that carries a delegation with glue.
RespNameError ==
    Response("NameError", << >>,
             <<RecNS("com", "ns.com")>>, <<RecA("ns.com", Server2)>>)
\* A referral: a delegation of another zone first, then two name servers of the
\* zone, their glue in the opposite order.
RespReferral ==
    Response("NoError", << >>,
             <<RecNS("org", "ns.org"), RecNS("com", "ns.com"), RecNS("com", "ns2.com")>>,
             <<RecA("ns2.com", Server3), RecA("ns.org", HostAddr), RecA("ns.com", Server2)>>)
\* A referral to a host without glue (the additional A record is another host's).
RespNoGlue ==
    Response("NoError", << >>, <<RecNS("com", "ns.net")>>, <<RecA("ns.com", Server2)>>)
\* The same from the root zone: it applies to every name, that host's included.
RespRootNoGlue == Response("NoError", << >>, <<RecNS("", "ns.net")>>, << >>)
\* A referral whose glue is the root server itself.
RespSelfGlue ==
    Response("NoError", << >>, <<RecNS("", "a.root")>>, <<RecA("a.root", RootServer)>>)
\* A referral to a host whose name cannot be encoded.
RespLongHost == Response("NoError", << >>, <<RecNS("", LongName)>>, << >>)
\* No answer, no error, no delegation.
RespEmpty == Response("NoError", << >>, << >>, << >>)
\* Answers under an error code, with a delegation of another zone.
RespRefused ==
    Response("Refused", <<RecA("a.com", HostAddr)>>,
             <<RecNS("org", "ns.org")>>, <<RecA("ns.org", Server3)>>)

UpstreamResponses ==
    { RespAnswer, RespNsAddr, RespUnknown, RespLongAnswer, RespNameError, RespReferral, RespNoGlue,
      RespRootNoGlue, RespSelfGlue, RespLongHost, RespEmpty, RespRefused }

\* What the network gives one call of lookup: a failure of the socket (bind
\* before the query is encoded; recv_from, which stands for send_to too, after), a
\* failure of DnsPacket::from_buffer on the answer, or the decoded answer.  The
\* answer is not matched against the query: any packet is accepted.
Upstream ==
    {Err(e) : e \in {"bind", "recv_from", "from_buffer"}}
    \cup {Ok(r) : r \in UpstreamResponses}

(***************************************************************************)
(* State.                                                                  *)
(***************************************************************************)
VARIABLES
    pc,        \* where main is: "recv" (blocked in recv_from, main.rs:117),
               \* "resolve" (in recursive_lookup, main.rs:141), "reply" (the reply
               \* is assembled, main.rs:167)
    incoming,  \* handle_query's incoming_request, as decoded
    packet,    \* handle_query's reply packet
    stack,     \* the activations of recursive_lookup, the outermost first
    ret,       \* the value the activation that just ended returned to its caller
    inbound,   \* observed: what the socket delivered to the latest handle_query
    trace,     \* observed: the calls of lookup made for it, with their results
    result,    \* observed: what the outermost recursive_lookup returned for it
    reply,     \* observed: the reply sent to the client for it
    outcome,   \* observed: what the latest handle_query returned to main: "Ok", or
               \* the call that failed; "none" while it runs and before the first
    buffer,    \* BytePacketBuffer.buffer: the octet at each offset 0..511
    position,  \* BytePacketBuffer.position
    qn,        \* the locals of the call of read_qname in progress, or NoCall
    rd,        \* the locals of the call of from_buffer in progress, or NoCall
    done,      \* observed: the codec operation completed last, with its result
    source,    \* observed: the encoding operation whose octets the buffer received
    ops,       \* operations applied to this buffer
    hops       \* transmissions that led to this buffer

serverVars == <<pc, incoming, packet, stack, ret, inbound, trace, result, reply, outcome>>
codecVars == <<buffer, position, qn, rd, done, source, ops, hops>>
vars == <<serverVars, codecVars>>

NoReply == [sent |-> FALSE, packet |-> DnsPacketNew]

\* No call of read_qname, or of from_buffer, is in progress.
NoCall == [active |-> FALSE]
\* No codec operation has completed.
NoneDone == [op |-> "none"]
\* The buffer was not filled from an encoding of this program.
NoSource == [op |-> "none"]

\* The server model holds its packets decoded: there the buffers of handle_query
\* and lookup are not part of the state.
NoCodec ==
    /\ buffer = << >>
    /\ position = 0
    /\ qn = NoCall
    /\ rd = NoCall
    /\ done = NoneDone
    /\ source = NoSource
    /\ ops = 0
    /\ hops = 0

Top == stack[Len(stack)]
Pop == SubSeq(stack, 1, Len(stack) - 1)
SetTop(f) == [stack EXCEPT ![Len(stack)] = f]

\* A new activation of recursive_lookup: the candidate server is the root server
\* and the loop is about to send its first query.
NewFrame(question_name, question_type) ==
    [question_name |-> question_name,
     question_type |-> question_type,
     ns |-> RootServer,
     response |-> DnsPacketNew,
     pc |-> "lookup"]

\* lookup: the query packet it builds.
LookupQuery(question_name, question_type) ==
    [DnsPacketNew EXCEPT !.header.id = 6666,
                         !.header.questions = 1,
                         !.header.recursion_desired = FALSE,
                         !.questions =
                            <<DnsQuestionNew(question_name, question_type, "IN")>>]

\* lookup: the socket is bound, the query is encoded, then sent and the answer
\* received and decoded (u); a failure to encode the query ends the call before
\* anything is sent.
LookupResult(question_name, question_type, u) ==
    IF u = Err("bind") THEN u
    ELSE IF ~PacketWrite(LookupQuery(question_name, question_type)).ok
    THEN Err("write")
    ELSE u

\* Mutant of AfterHandleQuery: an error of handle_query ends main (the ? operator
\* in place of the match).
AfterHandleQuery_ExitOnError(r) == IF r = "Err" THEN "exit" ELSE "recv"

\* Mutant of IsAnswer: the emptiness of the answer section is not looked at.
IsAnswer_AnyNoError(response) == response.header.rescode = "NoError"

\* recursive_lookup, main.rs:64: the answer section is not empty and there is no
\* error.
IsAnswer(response) ==
    response.answers # << >> /\ response.header.rescode = "NoError"

\* Mutant of IsNameError: a NameError response that names name servers is taken
\* for a referral.
IsNameError_UnlessDelegated(response) ==
    response.header.rescode = "NameError" /\ response.authorities = << >>

\* recursive_lookup, main.rs:70.
IsNameError(response) == response.header.rescode = "NameError"

\* Mutant of LoopOutcome: the loop gives up, returning the response, once three
\* queries have been sent.
LoopOutcome_StepBound(f) ==
    LET resolved == get_resolved_ns(f.response, f.question_name)
        unresolved == get_unresolved_ns(f.response, f.question_name)
    IN  IF IsAnswer(f.response) \/ IsNameError(f.response) \/ Len(trace) >= 3
        THEN [kind |-> "return", value |-> ""]
        ELSE IF resolved.some THEN [kind |-> "switch", value |-> resolved.value]
        ELSE IF ~unresolved.some THEN [kind |-> "return", value |-> ""]
        ELSE [kind |-> "nest", value |-> unresolved.value]

\* recursive_lookup, main.rs:63-92: what the loop does with the response of the
\* candidate server.
LoopOutcome(f) ==
    LET resolved == get_resolved_ns(f.response, f.question_name)
        unresolved == get_unresolved_ns(f.response, f.question_name)
    IN  IF IsAnswer(f.response) \/ IsNameError(f.response)
        THEN [kind |-> "return", value |-> ""]
        ELSE IF resolved.some THEN [kind |-> "switch", value |-> resolved.value]
        ELSE IF ~unresolved.some THEN [kind |-> "return", value |-> ""]
        ELSE [kind |-> "nest", value |-> unresolved.value]

\* Mutant of NestedOutcome: without an address the value of the nested call is
\* returned, not the last response of this activation.
NestedOutcome_ReturnsNested(f, r) ==
    IF r.tag = "Err" THEN [kind |-> "return", ns |-> f.ns, result |-> r]
    ELSE IF get_random_a(r.packet).some
         THEN [kind |-> "switch", ns |-> get_random_a(r.packet).value,
               result |-> NoResult]
         ELSE [kind |-> "return", ns |-> f.ns, result |-> r]

\* Mutant of NestedOutcome: an error of the nested call is taken like a nested
\* result without an address.
NestedOutcome_ErrorDegrades(f, r) ==
    IF r.tag = "Ok" /\ get_random_a(r.packet).some
    THEN [kind |-> "switch", ns |-> get_random_a(r.packet).value,
          result |-> NoResult]
    ELSE [kind |-> "return", ns |-> f.ns, result |-> Ok(f.response)]

\* recursive_lookup, main.rs:92-101: what the loop does with the value the nested
\* recursive_lookup returned: its error is returned (the ? operator); its first A
\* address becomes the candidate server; without one the last response of this
\* activation is returned.
NestedOutcome(f, r) ==
    IF r.tag = "Err" THEN [kind |-> "return", ns |-> f.ns, result |-> r]
    ELSE IF get_random_a(r.packet).some
         THEN [kind |-> "switch", ns |-> get_random_a(r.packet).value,
               result |-> NoResult]
         ELSE [kind |-> "return", ns |-> f.ns, result |-> Ok(f.response)]

\* handle_query, main.rs:123-128: the reply packet before the question is looked at.
ReplyHeader(request) ==
    [DnsPacketNew EXCEPT !.header.id = request.header.id,
                         !.header.recursion_desired = TRUE,
                         !.header.recursion_available = TRUE,
                         !.header.response = TRUE]

\* Mutant of PoppedQuestion: the first question of the request.
PoppedQuestion_First(request) == request.questions[1]

\* Vec::pop: the last question of the request.
PoppedQuestion(request) == request.questions[Len(request.questions)]

\* Mutant of ReplyFor: only the answers of the result are copied.
ReplyFor_AnswersOnly(p, question, r) ==
    IF r.tag = "Ok"
    THEN [p EXCEPT !.questions = Append(p.questions, question),
                   !.header.rescode = r.packet.header.rescode,
                   !.answers = p.answers \o r.packet.answers]
    ELSE [p EXCEPT !.header.rescode = "ServerFailure"]

\* handle_query, main.rs:141-159: the reply packet once recursive_lookup returned r.
ReplyFor(p, question, r) ==
    IF r.tag = "Ok"
    THEN [p EXCEPT !.questions = Append(p.questions, question),
                   !.header.rescode = r.packet.header.rescode,
                   !.answers = p.answers \o r.packet.answers,
                   !.authorities = p.authorities \o r.packet.authorities,
                   !.resources = p.resources \o r.packet.resources]
    ELSE [p EXCEPT !.header.rescode = "ServerFailure"]

\* handle_query, main.rs:164: the reply to a request without a question.
ReplyNoQuestion(p) == [p EXCEPT !.header.rescode = "FormatError"]

\* main, main.rs:184-189: whatever handle_query returned, the loop calls it again.
AfterHandleQuery(r) == "recv"

(***************************************************************************)
(* Actions.                                                                *)
(***************************************************************************)
Init ==
    /\ pc = "recv"
    /\ incoming = DnsPacketNew
    /\ packet = DnsPacketNew
    /\ stack = << >>
    /\ ret = NoResult
    /\ inbound = NoInbound
    /\ trace = << >>
    /\ result = NoResult
    /\ reply = NoReply
    /\ outcome = "none"
    /\ NoCodec

\* main calls handle_query, which blocks in recv_from until the socket delivers d
\* (main.rs:106-131,160-165).  A failure of recv_from or of the decoding returns
\* the error to main; a request with a question starts its resolution; one
\* without gets the FormatError reply assembled.  incoming keeps the questions as
\* decoded: the question handled is the last one (PoppedQuestion).
RecvQuery(d) ==
    /\ UNCHANGED codecVars
    /\ pc = "recv"
    /\ inbound' = d
    /\ trace' = << >>
    /\ result' = NoResult
    /\ reply' = NoReply
    /\ ret' = NoResult
    /\ IF d.tag # "Ok"
       THEN /\ outcome' = d.error
            /\ pc' = AfterHandleQuery("Err")
            /\ incoming' = DnsPacketNew
            /\ packet' = DnsPacketNew
            /\ stack' = << >>
       ELSE /\ outcome' = "none"
            /\ incoming' = d.packet
            /\ IF d.packet.questions # << >>
               THEN /\ packet' = ReplyHeader(d.packet)
                    /\ stack' = <<NewFrame(PoppedQuestion(d.packet).q_name,
                                           PoppedQuestion(d.packet).q_type)>>
                    /\ pc' = "resolve"
               ELSE /\ packet' = ReplyNoQuestion(ReplyHeader(d.packet))
                    /\ stack' = << >>
                    /\ pc' = "reply"

\* recursive_lookup, main.rs:57-61: one call of lookup for the question of the
\* innermost activation, to its candidate server.  An error ends the activation
\* with that error (the ? operator).
Lookup(u) ==
    /\ UNCHANGED codecVars
    /\ pc = "resolve"
    /\ stack # << >>
    /\ Top.pc = "lookup"
    /\ Len(trace) < MaxQueries
    /\ LET r == LookupResult(Top.question_name, Top.question_type, u)
       IN  /\ trace' = Append(trace,
                              [depth |-> Len(stack) - 1,
                               server |-> Top.ns,
                               query |-> LookupQuery(Top.question_name,
                                                     Top.question_type),
                               result |-> r])
           /\ IF r.tag = "Err"
              THEN /\ stack' = Pop
                   /\ ret' = r
              ELSE /\ stack' = SetTop([Top EXCEPT !.response = r.packet,
                                                  !.pc = "decide"])
                   /\ ret' = ret
    /\ UNCHANGED <<pc, incoming, packet, inbound, result, reply, outcome>>

\* recursive_lookup, main.rs:65,71,86: the activation returns the response.
ReturnResponse ==
    /\ UNCHANGED codecVars
    /\ pc = "resolve"
    /\ stack # << >>
    /\ Top.pc = "decide"
    /\ LoopOutcome(Top).kind = "return"
    /\ ret' = Ok(Top.response)
    /\ stack' = Pop
    /\ UNCHANGED <<pc, incoming, packet, inbound, trace, result, reply, outcome>>

\* recursive_lookup, main.rs:77-80: the candidate server becomes the glue address
\* and the loop starts over.
SwitchServer ==
    /\ UNCHANGED codecVars
    /\ pc = "resolve"
    /\ stack # << >>
    /\ Top.pc = "decide"
    /\ LoopOutcome(Top).kind = "switch"
    /\ stack' = SetTop([Top EXCEPT !.ns = LoopOutcome(Top).value, !.pc = "lookup"])
    /\ UNCHANGED <<pc, incoming, packet, ret, inbound, trace, result, reply, outcome>>

\* recursive_lookup, main.rs:84-92: the call of recursive_lookup for the A record
\* of the name server's host.
NestedLookup ==
    /\ UNCHANGED codecVars
    /\ pc = "resolve"
    /\ stack # << >>
    /\ Top.pc = "decide"
    /\ LoopOutcome(Top).kind = "nest"
    /\ Len(stack) <= MaxDepth
    /\ stack' = Append(SetTop([Top EXCEPT !.pc = "nested"]),
                       NewFrame(LoopOutcome(Top).value, "A"))
    /\ UNCHANGED <<pc, incoming, packet, ret, inbound, trace, result, reply, outcome>>

\* recursive_lookup, main.rs:92-101: the nested call has returned, and the
\* activation goes on with the address it gave or returns.
ResumeAfterNested ==
    /\ UNCHANGED codecVars
    /\ pc = "resolve"
    /\ stack # << >>
    /\ Top.pc = "nested"
    /\ ret.tag # "None"
    /\ LET o == NestedOutcome(Top, ret)
       IN  /\ stack' = IF o.kind = "switch"
                       THEN SetTop([Top EXCEPT !.ns = o.ns, !.pc = "lookup"])
                       ELSE Pop
           /\ ret' = o.result
    /\ UNCHANGED <<pc, incoming, packet, inbound, trace, result, reply, outcome>>

\* handle_query, main.rs:141-159: the outermost recursive_lookup has returned and
\* the reply is assembled from what it returned.
ResolveDone ==
    /\ UNCHANGED codecVars
    /\ pc = "resolve"
    /\ stack = << >>
    /\ ret.tag # "None"
    /\ result' = ret
    /\ ret' = NoResult
    /\ packet' = ReplyFor(packet, PoppedQuestion(incoming), ret)
    /\ pc' = "reply"
    /\ UNCHANGED <<incoming, stack, inbound, trace, reply, outcome>>

\* handle_query, main.rs:167-174, and main, main.rs:184-189: the reply is
\* encoded, the encoded octets are taken from the buffer and sent (sendOk: send_to
\* succeeds).  Each of the three can fail, and then handle_query returns the
\* error and nothing is sent.  handle_query's locals end with it.
SendReply(sendOk) ==
    /\ UNCHANGED codecVars
    /\ pc = "reply"
    /\ LET w == PacketWrite(packet)
           ok == w.ok /\ GetRangeOk(0, w.position) /\ sendOk
       IN  /\ reply' = IF ok THEN [sent |-> TRUE, packet |-> w.packet] ELSE NoReply
           /\ outcome' = IF ~w.ok THEN "write"
                          ELSE IF ~GetRangeOk(0, w.position) THEN "get_range"
                          ELSE IF ~sendOk THEN "send_to"
                          ELSE "Ok"
           /\ pc' = AfterHandleQuery(IF ok THEN "Ok" ELSE "Err")
    /\ incoming' = DnsPacketNew
    /\ packet' = DnsPacketNew
    /\ UNCHANGED <<stack, ret, inbound, trace, result>>

Next ==
    \/ \E d \in Inbound : RecvQuery(d)
    \/ \E u \in Upstream : Lookup(u)
    \/ ReturnResponse
    \/ SwitchServer
    \/ NestedLookup
    \/ ResumeAfterNested
    \/ ResolveDone
    \/ \E sendOk \in BOOLEAN : SendReply(sendOk)

Spec == Init /\ [][Next]_vars

(***************************************************************************)
(* The wire codec.  A cursor is the pair of BytePacketBuffer's fields; an   *)
(* operation returns the cursor it leaves with its value or its error.     *)
(***************************************************************************)
\* Bounds of the codec model: the operations applied to one buffer, and the
\* transmissions of encoded octets into a new buffer.
MaxOps == 1
MaxHops == 1

Offsets == 0..(BufferSize - 1)

Cursor(buf, pos) == [buffer |-> buf, position |-> pos]

\* BytePacketBufferError, with the values its variants carry.
NoErr == [kind |-> "none", a |-> 0, b |-> 0]
EndOfBuffer == [kind |-> "EndOfBuffer", a |-> 0, b |-> 0]
ExceededJumpCount(n) == [kind |-> "ExceededJumpCount", a |-> n, b |-> 0]
QueryDomainNameLengthExceeded(n) ==
    [kind |-> "QueryDomainNameLengthExceeded", a |-> n, b |-> 0]
QueryLabelNameLengthExceeded(index, n) ==
    [kind |-> "QueryLabelNameLengthExceeded", a |-> index, b |-> n]

\* Result<T, BytePacketBufferError>, with the cursor as the call leaves it.
Good(b, v) == [b |-> b, ok |-> TRUE, value |-> v, error |-> NoErr]
Fail(b, e) == [b |-> b, ok |-> FALSE, value |-> 0, error |-> e]

\* The ? operator along a sequence of calls: the first result that is an error,
\* or the last result.
RECURSIVE FirstFail(_)
FirstFail(rs) ==
    IF Len(rs) = 1 \/ ~Head(rs).ok THEN Head(rs) ELSE FirstFail(Tail(rs))

\* A u32 is held as its four octets, the highest first: U32 gives it from its two
\* halves of 16 bits.
U32(high, low) == <<high \div 256, high % 256, low \div 256, low % 256>>

\* BytePacketBuffer::new.
BufferNew == [i \in Offsets |-> 0]

\* Mutant of step: the position stops at the capacity.
step_StopsAtCapacity(b, n) ==
    [b EXCEPT !.position = IF b.position + n > BufferSize THEN BufferSize
                           ELSE b.position + n]

\* BytePacketBuffer::step: the position moves forward, unchecked.
step(b, n) == [b EXCEPT !.position = @ + n]

\* BytePacketBuffer::seek: the position is set, unchecked.
seek(b, pos) == [b EXCEPT !.position = pos]

\* BytePacketBuffer::read.
read(b) ==
    IF b.position >= BufferSize
    THEN Fail(b, EndOfBuffer)
    ELSE Good(step(b, 1), b.buffer[b.position])

\* BytePacketBuffer::get.
get(b, pos) ==
    IF pos >= BufferSize THEN Fail(b, EndOfBuffer) ELSE Good(b, b.buffer[pos])

\* BytePacketBuffer::get_range.
get_range(b, start, length) ==
    IF ~GetRangeOk(start, length)
    THEN Fail(b, EndOfBuffer)
    ELSE Good(b, [i \in 1..length |-> b.buffer[start + i - 1]])

\* BytePacketBuffer::read_u16: two reads, the first octet the high one.
read_u16(b) ==
    LET r1 == read(b)
        r2 == read(r1.b)
    IN  IF ~r1.ok THEN r1
        ELSE IF ~r2.ok THEN r2
        ELSE Good(r2.b, r1.value * 256 + r2.value)

\* BytePacketBuffer::read_u32: four reads, the first octet the highest.
read_u32(b) ==
    LET r1 == read(b)
        r2 == read(r1.b)
        r3 == read(r2.b)
        r4 == read(r3.b)
        r == FirstFail(<<r1, r2, r3, r4>>)
    IN  IF ~r.ok THEN r
        ELSE Good(r4.b, <<r1.value, r2.value, r3.value, r4.value>>)

\* Mutant of write: at or past the capacity the last octet is overwritten.
write_ClampsAtEnd(b, value) ==
    IF b.position >= BufferSize
    THEN Good([b EXCEPT !.buffer[BufferSize - 1] = value], 0)
    ELSE Good(step([b EXCEPT !.buffer[b.position] = value], 1), 0)

\* BytePacketBuffer::write (write_u8 is the same call).
write(b, value) ==
    IF b.position >= BufferSize
    THEN Fail(b, EndOfBuffer)
    ELSE Good(step([b EXCEPT !.buffer[b.position] = value], 1), 0)

\* BytePacketBuffer::write_u16.
write_u16(b, val) ==
    LET r1 == write(b, (val \div 256) % 256)
    IN  IF ~r1.ok THEN r1 ELSE write(r1.b, val % 256)

\* BytePacketBuffer::write_u32: four writes, the highest octet first.
write_u32(b, val) ==
    LET r1 == write(b, val[1])
        r2 == write(r1.b, val[2])
        r3 == write(r2.b, val[3])
        r4 == write(r3.b, val[4])
    IN  FirstFail(<<r1, r2, r3, r4>>)

\* The octets of a sequence written one after the other with write: those whose
\* offset lies below the capacity are stored, and the first one that does not
\* fails the call.
write_all(b, octets) ==
    LET n == IF b.position >= BufferSize THEN 0
             ELSE IF Len(octets) <= BufferSize - b.position THEN Len(octets)
             ELSE BufferSize - b.position
        nb == Cursor([i \in Offsets |->
                        IF i >= b.position /\ i < b.position + n
                        THEN octets[i - b.position + 1]
                        ELSE b.buffer[i]],
                     b.position + n)
    IN  IF n = Len(octets) THEN Good(nb, 0) ELSE Fail(nb, EndOfBuffer)

(***************************************************************************)
(* The name codec.  At this level a name is the sequence of the code       *)
(* points of its characters.                                               *)
(***************************************************************************)
\* The code point of a character.
Ord(c) ==
    CASE c = "." -> 46
      [] c = "2" -> 50
      [] c = "C" -> 67
      [] c = "E" -> 69
      [] c = "M" -> 77
      [] c = "O" -> 79
      [] c = "W" -> 87
      [] c = "a" -> 97
      [] c = "c" -> 99
      [] c = "e" -> 101
      [] c = "g" -> 103
      [] c = "l" -> 108
      [] c = "m" -> 109
      [] c = "n" -> 110
      [] c = "o" -> 111
      [] c = "p" -> 112
      [] c = "r" -> 114
      [] c = "s" -> 115
      [] c = "t" -> 116
      [] c = "w" -> 119
      [] c = "x" -> 120

NameBytes(name) == [i \in DOMAIN Chars(name) |-> Ord(Chars(name)[i])]

\* str::split("."): the labels of a name, in order; the empty name splits into
\* one empty label, and a separator at either end leaves an empty label there.
Split(value) ==
    LET dots == {i \in 1..Len(value) : value[i] = 46}
        starts == {0} \cup dots
        ends == dots \cup {Len(value) + 1}
        Kth(k) == CHOOSE b \in starts : Cardinality({y \in starts : y < b}) = k - 1
        EndOf(b) == CHOOSE e \in ends : e > b /\ \A y \in ends : y > b => e <= y
    IN  [k \in 1..Cardinality(starts) |->
            [i \in 1..(EndOf(Kth(k)) - Kth(k) - 1) |-> value[Kth(k) + i]]]

\* Mutant of write_question_name: the limits are 256 and 64.
write_question_name_LimitsOffByOne(b, value) ==
    LET labels == Split(value)
        long == {k \in DOMAIN labels : Len(labels[k]) > MaxLabelLen + 1}
        first == CHOOSE k \in long : \A j \in long : k <= j
        upto == IF long = {} THEN Len(labels) ELSE first - 1
        r == write_all(b, Flatten([k \in 1..upto |-> <<Len(labels[k])>> \o labels[k]]))
    IN  IF Len(value) > MaxDomainLen + 1
        THEN Fail(b, QueryDomainNameLengthExceeded(Len(value)))
        ELSE IF ~r.ok THEN r
        ELSE IF long # {}
        THEN Fail(r.b, QueryLabelNameLengthExceeded(first - 1, Len(labels[first])))
        ELSE write(r.b, 0)

\* BytePacketBuffer::write_question_name: a name over 255 octets is refused
\* before anything is written; then label by label (index from 0) a label over
\* 63 octets is refused, after the labels before it have been written, and a
\* label within the limit is written as its length octet and its octets; at the
\* end the zero octet.  Any write at or past the capacity ends the call.
write_question_name(b, value) ==
    LET labels == Split(value)
        long == {k \in DOMAIN labels : Len(labels[k]) > MaxLabelLen}
        first == CHOOSE k \in long : \A j \in long : k <= j
        upto == IF long = {} THEN Len(labels) ELSE first - 1
        r == write_all(b, Flatten([k \in 1..upto |-> <<Len(labels[k])>> \o labels[k]]))
    IN  IF Len(value) > MaxDomainLen
        THEN Fail(b, QueryDomainNameLengthExceeded(Len(value)))
        ELSE IF ~r.ok THEN r
        ELSE IF long # {}
        THEN Fail(r.b, QueryLabelNameLengthExceeded(first - 1, Len(labels[first])))
        ELSE write(r.b, 0)

\* read_qname, byte_packet_buffer.rs:102.
max_jumps == 5

\* str::to_lowercase on String::from_utf8_lossy of the octets of a label, code
\* point by code point: an ASCII capital becomes the small letter; an octet
\* outside ASCII that begins no UTF-8 sequence becomes U+FFFD (the buffers of
\* the model hold no multi-octet UTF-8 sequence).
Lowercase(octets) ==
    [i \in DOMAIN octets |->
        IF octets[i] >= 65 /\ octets[i] <= 90 THEN octets[i] + 32
        ELSE IF octets[i] >= 128 THEN 65533
        ELSE octets[i]]

\* read_qname, byte_packet_buffer.rs:93-108: the locals before the loop.
QnameLocals(b) ==
    [current_position |-> b.position,
     jumped |-> FALSE,
     jumps_performed |-> 0,
     delimiter |-> << >>,
     qname |-> << >>]

\* A loop goes on with cursor b and locals l, or the call returns r.
Continue(b, l) == [status |-> "loop", b |-> b, l |-> l, r |-> Good(b, 0)]
Return(l, r) == [status |-> "return", b |-> r.b, l |-> l, r |-> r]

\* Mutant of QnameIter: the sixth jump is refused already.
QnameIter_LimitFour(b, l) ==
    LET word == get(b, l.current_position)
        b1 == IF l.jumped THEN b ELSE seek(b, l.current_position + 2)
        second == get(b1, l.current_position + 1)
        label == get_range(b, l.current_position + 1, word.value)
    IN  IF l.jumps_performed >= max_jumps
        THEN Return(l, Fail(b, ExceededJumpCount(max_jumps)))
        ELSE IF ~word.ok THEN Return(l, word)
        ELSE IF word.value >= 192
        THEN IF ~second.ok THEN Return(l, second)
             ELSE Continue(b1, [l EXCEPT
                    !.current_position = (word.value - 192) * 256 + second.value,
                    !.jumped = TRUE,
                    !.jumps_performed = @ + 1])
        ELSE IF word.value = 0
        THEN Return(l, Good(IF l.jumped THEN b
                                 ELSE seek(b, l.current_position + 1), l.qname))
        ELSE IF ~label.ok THEN Return(l, label)
        ELSE Continue(b, [l EXCEPT
                !.qname = l.qname \o l.delimiter \o Lowercase(label.value),
                !.delimiter = <<46>>,
                !.current_position = l.current_position + 1 + word.value])

\* Mutant of QnameIter: every pointer moves the cursor two octets past itself.
QnameIter_SeeksAtEveryPointer(b, l) ==
    LET word == get(b, l.current_position)
        b1 == seek(b, l.current_position + 2)
        second == get(b1, l.current_position + 1)
        label == get_range(b, l.current_position + 1, word.value)
    IN  IF l.jumps_performed > max_jumps
        THEN Return(l, Fail(b, ExceededJumpCount(max_jumps)))
        ELSE IF ~word.ok THEN Return(l, word)
        ELSE IF word.value >= 192
        THEN IF ~second.ok THEN Return(l, second)
             ELSE Continue(b1, [l EXCEPT
                    !.current_position = (word.value - 192) * 256 + second.value,
                    !.jumped = TRUE,
                    !.jumps_performed = @ + 1])
        ELSE IF word.value = 0
        THEN Return(l, Good(IF l.jumped THEN b
                                 ELSE seek(b, l.current_position + 1), l.qname))
        ELSE IF ~label.ok THEN Return(l, label)
        ELSE Continue(b, [l EXCEPT
                !.qname = l.qname \o l.delimiter \o Lowercase(label.value),
                !.delimiter = <<46>>,
                !.current_position = l.current_position + 1 + word.value])

\* read_qname, byte_packet_buffer.rs:110-176: one iteration of the loop, with the
\* seek that follows the loop when the iteration leaves it.  The octet at the
\* local position is a pointer when its two high bits are set: the first pointer
\* moves the cursor two octets past itself, and every pointer moves the local
\* position to its offset; a zero octet ends the name; any other octet is the
\* length of a label, taken with get_range and lowercased.
QnameIter(b, l) ==
    LET word == get(b, l.current_position)
        b1 == IF l.jumped THEN b ELSE seek(b, l.current_position + 2)
        second == get(b1, l.current_position + 1)
        label == get_range(b, l.current_position + 1, word.value)
    IN  IF l.jumps_performed > max_jumps
        THEN Return(l, Fail(b, ExceededJumpCount(max_jumps)))
        ELSE IF ~word.ok THEN Return(l, word)
        ELSE IF word.value >= 192
        THEN IF ~second.ok THEN Return(l, second)
             ELSE Continue(b1, [l EXCEPT
                    !.current_position = (word.value - 192) * 256 + second.value,
                    !.jumped = TRUE,
                    !.jumps_performed = @ + 1])
        ELSE IF word.value = 0
        THEN Return(l, Good(IF l.jumped THEN b
                                 ELSE seek(b, l.current_position + 1), l.qname))
        ELSE IF ~label.ok THEN Return(l, label)
        ELSE Continue(b, [l EXCEPT
                !.qname = l.qname \o l.delimiter \o Lowercase(label.value),
                !.delimiter = <<46>>,
                !.current_position = l.current_position + 1 + word.value])

\* read_qname as one call: the loop run to its return.
RECURSIVE QnameRun(_)
QnameRun(s) == IF s.status = "return" THEN s.r ELSE QnameRun(QnameIter(s.b, s.l))

read_qname(b) == QnameRun(Continue(b, QnameLocals(b)))

\* BytePacketBuffer::read_question_name, which DnsQuestion::read calls: the name
\* decode.
read_question_name(b) == read_qname(b)

\* BytePacketBuffer::set_u16, which DnsRecord::write calls: a u16 is put at an
\* absolute offset, the cursor where it is.
set_u16(b, pos, val) ==
    IF pos + 1 >= BufferSize
    THEN Fail(b, EndOfBuffer)
    ELSE Good([b EXCEPT !.buffer[pos] = (val \div 256) % 256,
                        !.buffer[pos + 1] = val % 256], 0)

\* The ? operator: the error of a call is returned, and what follows the call
\* goes on from what it returned.
Then(r, Rest(_)) == IF ~r.ok THEN r ELSE Rest(r)

(***************************************************************************)
(* Sequences of reads and writes.  The calls of a codec function follow    *)
(* one another, each ended by the ? operator: the first error is returned. *)
(***************************************************************************)
\* One read: "u16" is read_u16, and so on.
ReadField(b, kind) ==
    CASE kind = "u16" -> read_u16(b)
      [] kind = "u32" -> read_u32(b)
      [] kind = "qname" -> read_qname(b)
      [] kind = "question_name" -> read_question_name(b)

\* The reads of a sequence, one after the other; the value is the sequence of
\* the values read.
RECURSIVE ReadFields(_, _, _)
ReadFields(b, kinds, values) ==
    IF kinds = << >> THEN Good(b, values)
    ELSE Then(ReadField(b, Head(kinds)),
              LAMBDA r : ReadFields(r.b, Tail(kinds), Append(values, r.value)))

\* One write: of the value v with write ("u8"), write_u16, write_u32 or
\* write_question_name ("name"); "reserve" is the write_u16(0) in the place of a
\* length not yet known, at offset pos; "patch" is the set_u16 that puts there the
\* number of octets written after it.
WriteField(b, f, pos) ==
    CASE f.k = "u8" -> write(b, f.v)
      [] f.k = "u16" -> write_u16(b, f.v)
      [] f.k = "u32" -> write_u32(b, f.v)
      [] f.k = "name" -> write_question_name(b, f.v)
      [] f.k = "reserve" -> write_u16(b, 0)
      [] f.k = "patch" -> set_u16(b, pos, (b.position - (pos + 2)) % 65536)

RECURSIVE WriteFields(_, _, _)
WriteFields(b, fields, pos) ==
    IF fields = << >> THEN Good(b, 0)
    ELSE Then(WriteField(b, Head(fields), pos),
              LAMBDA r : WriteFields(r.b, Tail(fields),
                                     IF Head(fields).k = "reserve" THEN b.position
                                     ELSE pos))

U8(v) == [k |-> "u8", v |-> v]
U16(v) == [k |-> "u16", v |-> v]

(***************************************************************************)
(* The header codec.                                                       *)
(***************************************************************************)
\* The bitwise or of two octets.
BitOr(x, y) ==
    LET Bit(v, k) == (v \div (2 ^ k)) % 2
        Or(k) == IF Bit(x, k) = 1 \/ Bit(y, k) = 1 THEN 2 ^ k ELSE 0
    IN  Or(0) + Or(1) + Or(2) + Or(3) + Or(4) + Or(5) + Or(6) + Or(7)

\* bool as u8.
AsU8(flag) == IF flag THEN 1 ELSE 0

\* ResultCode as u8: the discriminants of the enum.
ResultCode_as_u8(rescode) ==
    CASE rescode = "NoError" -> 0
      [] rescode = "FormatError" -> 1
      [] rescode = "ServerFailure" -> 2
      [] rescode = "NameError" -> 3
      [] rescode = "NotImplemented" -> 4
      [] rescode = "Refused" -> 5

\* Mutant of ResultCode_from_num: a number above 5 is Refused.
ResultCode_from_num_AboveIsRefused(num) ==
    CASE num = 0 -> "NoError"
      [] num = 1 -> "FormatError"
      [] num = 2 -> "ServerFailure"
      [] num = 3 -> "NameError"
      [] num = 4 -> "NotImplemented"
      [] OTHER -> "Refused"

\* ResultCode::from_num.
ResultCode_from_num(num) ==
    CASE num = 1 -> "FormatError"
      [] num = 2 -> "ServerFailure"
      [] num = 3 -> "NameError"
      [] num = 4 -> "NotImplemented"
      [] num = 5 -> "Refused"
      [] OTHER -> "NoError"

\* Mutant of HeaderFlagsA: the opcode is put one bit lower, over the
\* authoritative-answer bit.
HeaderFlagsA_OpcodeShift2(h) ==
    BitOr(BitOr(BitOr(BitOr(AsU8(h.recursion_desired),
                            AsU8(h.truncated_message) * 2),
                      AsU8(h.authoritative_answer) * 4),
                (h.opcode * 4) % 256),
          AsU8(h.response) * 128)

\* DnsHeader::write, dns_header.rs:160-166: the first flags octet.  The shift of
\* the opcode (a u8) drops the bits that leave the octet.
HeaderFlagsA(h) ==
    BitOr(BitOr(BitOr(BitOr(AsU8(h.recursion_desired),
                            AsU8(h.truncated_message) * 2),
                      AsU8(h.authoritative_answer) * 4),
                (h.opcode * 8) % 256),
          AsU8(h.response) * 128)

\* DnsHeader::write, dns_header.rs:168-174: the second flags octet.
HeaderFlagsB(h) ==
    BitOr(BitOr(BitOr(BitOr(ResultCode_as_u8(h.rescode),
                            AsU8(h.checking_disabled) * 16),
                      AsU8(h.authed_data) * 32),
                AsU8(h.z) * 64),
          AsU8(h.recursion_available) * 128)

\* DnsHeader::write: the id, the two flags octets and the four counts.
DnsHeader_write(b, h) ==
    WriteFields(b,
                <<U16(h.id), U8(HeaderFlagsA(h)), U8(HeaderFlagsB(h)),
                  U16(h.questions), U16(h.answers),
                  U16(h.authoritative_entries), U16(h.resource_entries)>>,
                0)

\* DnsHeader::read, dns_header.rs:131-151: the fields, from the id, the flags and
\* the four counts read.
HeaderOf(v) ==
    LET a == v[2] \div 256
        f == v[2] % 256
        Has(x, k) == (x \div (2 ^ k)) % 2 = 1
    IN  [id |-> v[1],
         recursion_desired |-> Has(a, 0),
         truncated_message |-> Has(a, 1),
         authoritative_answer |-> Has(a, 2),
         opcode |-> (a \div 8) % 16,
         response |-> Has(a, 7),
         rescode |-> ResultCode_from_num(f % 16),
         checking_disabled |-> Has(f, 4),
         authed_data |-> Has(f, 5),
         z |-> Has(f, 6),
         recursion_available |-> Has(f, 7),
         questions |-> v[3],
         answers |-> v[4],
         authoritative_entries |-> v[5],
         resource_entries |-> v[6]]

\* DnsHeader::read: six reads of a u16; the value is the header.
DnsHeader_read(b) ==
    Then(ReadFields(b, <<"u16", "u16", "u16", "u16", "u16", "u16">>, << >>),
         LAMBDA r : Good(r.b, HeaderOf(r.value)))

(***************************************************************************)
(* The question, record and packet codecs.                                 *)
(***************************************************************************)
\* QueryType: a variant without a value, or UNKNOWN with its number.
QueryType(variant) == [variant |-> variant, num |-> 0]
UNKNOWN(num) == [variant |-> "UNKNOWN", num |-> num]

\* QueryType::to_num: the number of each variant without a value.
QueryTypeNum(variant) ==
    CASE variant = "A" -> 1
      [] variant = "NS" -> 2
      [] variant = "MD" -> 3
      [] variant = "MF" -> 4
      [] variant = "CNAME" -> 5
      [] variant = "SOA" -> 6
      [] variant = "MB" -> 7
      [] variant = "MG" -> 8
      [] variant = "MR" -> 9
      [] variant = "NULL" -> 10
      [] variant = "WKS" -> 11
      [] variant = "PTR" -> 12
      [] variant = "HINFO" -> 13
      [] variant = "MINFO" -> 14
      [] variant = "MX" -> 15
      [] variant = "TXT" -> 16
      [] variant = "AAAA" -> 28
      [] variant = "AXFR" -> 252
      [] variant = "MAILB" -> 253
      [] variant = "MAILA" -> 254
      [] variant = "EVERYTHING" -> 255

QueryType_to_num(q) ==
    IF q.variant = "UNKNOWN" THEN q.num ELSE QueryTypeNum(q.variant)

\* QueryType::from_num: the arms are 1..16 and 252..255; every other number,
\* 28 among them, is UNKNOWN.
QueryType_from_num(num) ==
    CASE num = 1 -> QueryType("A")
      [] num = 2 -> QueryType("NS")
      [] num = 3 -> QueryType("MD")
      [] num = 4 -> QueryType("MF")
      [] num = 5 -> QueryType("CNAME")
      [] num = 6 -> QueryType("SOA")
      [] num = 7 -> QueryType("MB")
      [] num = 8 -> QueryType("MG")
      [] num = 9 -> QueryType("MR")
      [] num = 10 -> QueryType("NULL")
      [] num = 11 -> QueryType("WKS")
      [] num = 12 -> QueryType("PTR")
      [] num = 13 -> QueryType("HINFO")
      [] num = 14 -> QueryType("MINFO")
      [] num = 15 -> QueryType("MX")
      [] num = 16 -> QueryType("TXT")
      [] num = 252 -> QueryType("AXFR")
      [] num = 253 -> QueryType("MAILB")
      [] num = 254 -> QueryType("MAILA")
      [] num = 255 -> QueryType("EVERYTHING")
      [] OTHER -> UNKNOWN(num)

\* QueryClass, likewise.
QueryClass(variant) == [variant |-> variant, num |-> 0]

QueryClass_to_num(c) ==
    CASE c.variant = "UNKNOWN" -> c.num
      [] c.variant = "IN" -> 1
      [] c.variant = "CS" -> 2
      [] c.variant = "CH" -> 3
      [] c.variant = "HS" -> 4

QueryClass_from_num(num) ==
    CASE num = 1 -> QueryClass("IN")
      [] num = 2 -> QueryClass("CS")
      [] num = 3 -> QueryClass("CH")
      [] num = 4 -> QueryClass("HS")
      [] OTHER -> UNKNOWN(num)

\* The variants of DnsRecord with their fields as they go on the wire, in one
\* record shape: addr is the 4 octets of an Ipv4Addr or the 8 segments of an
\* Ipv6Addr.
WireRecord(rtype, domain, ttl) ==
    [rtype |-> rtype, domain |-> domain, ttl |-> ttl, host |-> << >>,
     addr |-> << >>, preference |-> 0, qtype |-> UNKNOWN(0), data_len |-> 0]
UNHANDLED(domain, qtype, data_len, ttl) ==
    [WireRecord("UNHANDLED", domain, ttl) EXCEPT !.qtype = qtype, !.data_len = data_len]
A(domain, addr, ttl) == [WireRecord("A", domain, ttl) EXCEPT !.addr = addr]
NS(domain, host, ttl) == [WireRecord("NS", domain, ttl) EXCEPT !.host = host]
CNAME(domain, host, ttl) == [WireRecord("CNAME", domain, ttl) EXCEPT !.host = host]
MX(domain, preference, host, ttl) ==
    [WireRecord("MX", domain, ttl) EXCEPT !.preference = preference, !.host = host]
AAAA(domain, addr, ttl) == [WireRecord("AAAA", domain, ttl) EXCEPT !.addr = addr]

\* DnsQuestion::write.
DnsQuestion_write(b, q) ==
    WriteFields(b,
                <<[k |-> "name", v |-> q.q_name],
                  U16(QueryType_to_num(q.q_type)),
                  U16(QueryClass_to_num(q.q_class))>>,
                0)

\* DnsQuestion::read: the name, the type and the class are read; the value is
\* the question.
DnsQuestion_read(b) ==
    Then(ReadFields(b, <<"question_name", "u16", "u16">>, << >>),
         LAMBDA r : Good(r.b, DnsQuestionNew(r.value[1],
                                             QueryType_from_num(r.value[2]),
                                             QueryClass_from_num(r.value[3]))))

\* DnsRecord::read, dns_record.rs:161-215: the reads of the data of a record, as
\* its type calls for; a type without an arm reads nothing.
DataFields(qtype) ==
    CASE qtype.variant = "A" -> <<"u32">>
      [] qtype.variant = "AAAA" -> <<"u32", "u32", "u32", "u32">>
      [] qtype.variant \in {"NS", "CNAME"} -> <<"qname">>
      [] qtype.variant = "MX" -> <<"u16", "qname">>
      [] OTHER -> << >>

\* The record built from the values read.
RecordOf(domain, qtype, ttl, data_len, v) ==
    LET Segments(x) == <<x[1] * 256 + x[2], x[3] * 256 + x[4]>>
    IN  CASE qtype.variant = "A" -> A(domain, v[1], ttl)
          [] qtype.variant = "AAAA" ->
                AAAA(domain,
                     Segments(v[1]) \o Segments(v[2]) \o Segments(v[3]) \o Segments(v[4]),
                     ttl)
          [] qtype.variant = "NS" -> NS(domain, v[1], ttl)
          [] qtype.variant = "CNAME" -> CNAME(domain, v[1], ttl)
          [] qtype.variant = "MX" -> MX(domain, v[1], v[2], ttl)
          [] OTHER -> UNHANDLED(domain, qtype, data_len, ttl)

\* Mutant of RecordRead: the data of a type without an arm is not stepped over.
RecordRead_NoSkip(b, domain, qtype, ttl, data_len) ==
    Then(ReadFields(b, DataFields(qtype), << >>),
         LAMBDA r : Good(r.b, RecordOf(domain, qtype, ttl, data_len, r.value)))

\* DnsRecord::read, dns_record.rs:161-215: the match on the type read: the data
\* is read, and the data of a type without an arm stepped over; the value is the
\* record.
RecordRead(b, domain, qtype, ttl, data_len) ==
    Then(ReadFields(b, DataFields(qtype), << >>),
         LAMBDA r : Good(IF qtype.variant \in {"A", "AAAA", "NS", "CNAME", "MX"}
                         THEN r.b ELSE step(r.b, data_len),
                         RecordOf(domain, qtype, ttl, data_len, r.value)))

\* DnsRecord::read: name, type, class (dropped), ttl and data length, then the
\* data.
DnsRecord_read(b) ==
    Then(ReadFields(b, <<"qname", "u16", "u16", "u32", "u16">>, << >>),
         LAMBDA r : RecordRead(r.b, r.value[1], QueryType_from_num(r.value[2]),
                               r.value[4], r.value[5]))

\* DnsRecord::write: the writes of a record.  A and AAAA write the length of
\* their data, 4 and 16, and the octets of the address; NS, CNAME and MX write a
\* zero length, their data, and put the length of the data there with set_u16.
RecordFields(rec) ==
    <<[k |-> "name", v |-> rec.domain], U16(QueryTypeNum(rec.rtype)), U16(1),
      [k |-> "u32", v |-> rec.ttl]>>
    \o CASE rec.rtype = "A" ->
                <<U16(4)>> \o [i \in 1..4 |-> U8(rec.addr[i])]
         [] rec.rtype = "AAAA" ->
                <<U16(16)>> \o [i \in 1..8 |-> U16(rec.addr[i])]
         [] rec.rtype \in {"NS", "CNAME"} ->
                <<[k |-> "reserve", v |-> 0], [k |-> "name", v |-> rec.host],
                  [k |-> "patch", v |-> 0]>>
         [] rec.rtype = "MX" ->
                <<[k |-> "reserve", v |-> 0], U16(rec.preference),
                  [k |-> "name", v |-> rec.host], [k |-> "patch", v |-> 0]>>

\* DnsRecord::write; the value is the number of octets written.  An UNHANDLED
\* record writes nothing.
DnsRecord_write(b, rec) ==
    IF rec.rtype = "UNHANDLED" THEN Good(b, 0)
    ELSE Then(WriteFields(b, RecordFields(rec), 0),
              LAMBDA r : Good(r.b, r.b.position - b.position))

\* for question in &self.questions { question.write(buffer)?; }
RECURSIVE WriteQuestions(_, _)
WriteQuestions(b, qs) ==
    IF qs = << >> THEN Good(b, << >>)
    ELSE Then(DnsQuestion_write(b, Head(qs)), LAMBDA r : WriteQuestions(r.b, Tail(qs)))

\* for rec in &self.answers { rec.write(buffer)?; } and the like; the value is
\* what each rec.write returned.
RECURSIVE WriteRecords(_, _, _)
WriteRecords(b, rs, lens) ==
    IF rs = << >> THEN Good(b, lens)
    ELSE Then(DnsRecord_write(b, Head(rs)),
              LAMBDA r : WriteRecords(r.b, Tail(rs), Append(lens, r.value)))

\* The header of a packet as DnsPacket::write sets it before anything is
\* written.
WithCounts(p) ==
    [p EXCEPT !.header.questions = Len(p.questions) % 65536,
              !.header.answers = Len(p.answers) % 65536,
              !.header.authoritative_entries = Len(p.authorities) % 65536,
              !.header.resource_entries = Len(p.resources) % 65536]

\* DnsPacket::write, dns_packet.rs:157-172: the header is written, then the
\* questions, the answers, the authority records and the additional records.
\* The value is what the write of each record returned, section by section.
WriteSections(b, p) ==
    Then(DnsHeader_write(b, p.header), LAMBDA r1 :
    Then(WriteQuestions(r1.b, p.questions), LAMBDA r2 :
    Then(WriteRecords(r2.b, p.answers, << >>), LAMBDA r3 :
    Then(WriteRecords(r3.b, p.authorities, r3.value), LAMBDA r4 :
    Then(WriteRecords(r4.b, p.resources, r4.value), LAMBDA r5 :
         Good(r5.b, [packet |-> p, written |-> r5.value]))))))

\* Mutant of DnsPacket_write: the counts the caller set are written.
DnsPacket_write_CallerCounts(b, p) == WriteSections(b, p)

\* DnsPacket::write: the counts of the header are set from the sections, then
\* the packet is written.  The value is the packet as the call leaves it, with
\* what the write of each of its records returned.
DnsPacket_write(b, p) == WriteSections(b, WithCounts(p))

\* DnsPacket::from_buffer, dns_packet.rs:121-122: the header is read into a new
\* packet, and the four loops lie ahead, each with the count of the header.
FromBufferLocals(header) ==
    [result |-> [DnsPacketNew EXCEPT !.header = header],
     left |-> <<header.questions, header.answers,
                header.authoritative_entries, header.resource_entries>>]

\* Mutant of FromBufferPush: at an error the packet read so far is returned.
FromBufferPush_KeepsOnError(l, k, r) ==
    IF ~r.ok THEN Return(l, Good(r.b, l.result))
    ELSE Continue(r.b,
            [result |-> CASE k = 1 -> [l.result EXCEPT !.questions = Append(@, r.value)]
                          [] k = 2 -> [l.result EXCEPT !.answers = Append(@, r.value)]
                          [] k = 3 -> [l.result EXCEPT !.authorities = Append(@, r.value)]
                          [] k = 4 -> [l.result EXCEPT !.resources = Append(@, r.value)],
             left |-> [l.left EXCEPT ![k] = @ - 1]])

\* The question or record r.value pushed to section k of the packet, or the
\* error r returned.
FromBufferPush(l, k, r) ==
    IF ~r.ok THEN Return(l, r)
    ELSE Continue(r.b,
            [result |-> CASE k = 1 -> [l.result EXCEPT !.questions = Append(@, r.value)]
                          [] k = 2 -> [l.result EXCEPT !.answers = Append(@, r.value)]
                          [] k = 3 -> [l.result EXCEPT !.authorities = Append(@, r.value)]
                          [] k = 4 -> [l.result EXCEPT !.resources = Append(@, r.value)],
             left |-> [l.left EXCEPT ![k] = @ - 1]])

\* DnsPacket::from_buffer, dns_packet.rs:124-148: one iteration of the loop at
\* hand, the first of the four that has iterations left: a question or a record
\* is read and pushed, or its error returned; without an iteration left the
\* packet is returned.
FromBufferIter(b, l) ==
    IF \A i \in 1..4 : l.left[i] = 0
    THEN Return(l, Good(b, l.result))
    ELSE IF l.left[1] > 0
    THEN FromBufferPush(l, 1, DnsQuestion_read(b))
    ELSE FromBufferPush(l, CHOOSE i \in 2..4 :
                                l.left[i] > 0 /\ \A j \in 2..(i - 1) : l.left[j] = 0,
                        DnsRecord_read(b))

(***************************************************************************)
(* The inputs of the codec: the buffers received from the network, with    *)
(* the position the cursor has reached in them, and the values encoded.    *)
(***************************************************************************)
\* socket.recv_from(&mut buffer.buffer) into a new buffer: the octets of the
\* datagram from offset 0, the rest zero.
Image(octets) ==
    [i \in Offsets |-> IF i < Len(octets) THEN octets[i + 1] ELSE 0]

\* The octets of a buffer from an offset on replaced.
Patch(buf, at, octets) ==
    [i \in Offsets |->
        IF i >= at /\ i < at + Len(octets) THEN octets[i - at + 1] ELSE buf[i]]

\* Names: pointers one to the next from offset 0 to offset 10 and from there to
\* the name "a" at offset 12; a label followed by a pointer at 15; a pointer to
\* itself at 21; two pointers to one another at 23 and 25; a pointer past the
\* buffer at 27; the root name at 29; a label of 64 octets at 31.
PointerImage ==
    Patch(Image(<<192, 2, 192, 4, 192, 6, 192, 8, 192, 10, 192, 12,
                  1, 97, 0,
                  3, 119, 87, 119, 192, 12,
                  192, 21,
                  192, 25, 192, 23,
                  194, 0,
                  0, 0,
                  64>>),
          32, [i \in 1..64 |-> 66])

\* The end of the buffer: the name "a" at offset 504 and the root name after it,
\* a label whose last octet is the last of the buffer, and in another buffer a
\* label followed by a pointer whose first octet is the last of the buffer.
EndImage == Patch(BufferNew, 504, <<1, 97, 0, 0, 3, 97, 98, 99>>)
EndPointerImage == Patch(BufferNew, 509, <<1, 97, 192>>)

\* One record at offset 0, owner name a.com: type, class IN, ttl, data.
RecordImage(type, data) ==
    Image(<<1, 97, 3, 99, 111, 109, 0, type \div 256, type % 256, 0, 1,
            0, 0, 1, 44, Len(data) \div 256, Len(data) % 256>> \o data)

RecordImages ==
    { RecordImage(1, <<203, 0, 113, 9>>),
      RecordImage(2, <<2, 110, 115, 192, 2>>),
      RecordImage(5, <<3, 87, 87, 87, 192, 0>>),
      RecordImage(15, <<0, 10, 2, 109, 120, 192, 0>>),
      RecordImage(28, <<32, 1, 13, 184, 0, 0, 0, 0, 0, 0, 0, 0, 0, 0, 0, 1>>),
      RecordImage(16, <<2, 104, 105>>),
      \* a record of type 6, which has a variant of QueryType, and one of type 41
      RecordImage(6, <<192, 0, 192, 0>>),
      RecordImage(41, << >>),
      \* a record of type 16 whose data length is 65535
      Image(<<0, 0, 16, 0, 1, 0, 0, 0, 60, 255, 255>>) }

\* A response with one question, three answers and a name server: the second
\* answer, at offset 39, is of type 16, and the 3 octets of its data are a
\* pointer to the record itself and an octet 255.
UnknownImage ==
    Image(<<26, 11, 129, 128, 0, 1, 0, 3, 0, 1, 0, 0,
            1, 97, 3, 99, 111, 109, 0, 0, 1, 0, 1,
            192, 12, 0, 1, 0, 1, 0, 0, 0, 60, 0, 4, 203, 0, 113, 9,
            192, 12, 0, 16, 0, 1, 0, 0, 1, 44, 0, 3, 192, 39, 255,
            192, 12, 0, 1, 0, 1, 0, 0, 0, 60, 0, 4, 203, 0, 113, 10,
            192, 14, 0, 2, 0, 1, 0, 0, 0, 60, 0, 5, 2, 110, 115, 192, 14>>)

\* Datagrams: a header that counts 65535 answers before an empty buffer; a
\* response with one question, an answer, a name server and its address, the
\* names after the first compressed; the response with a record of type 16.
PacketImages ==
    { Image(<<0, 7, 1, 0, 0, 0, 255, 255, 0, 0, 0, 0>>),
      Image(<<26, 10, 129, 128, 0, 1, 0, 1, 0, 1, 0, 1,
              1, 97, 3, 99, 111, 109, 0, 0, 1, 0, 1,
              192, 12, 0, 1, 0, 1, 0, 0, 0, 60, 0, 4, 203, 0, 113, 9,
              192, 14, 0, 2, 0, 1, 0, 0, 0, 60, 0, 5, 2, 110, 115, 192, 14,
              192, 51, 0, 1, 0, 1, 0, 0, 0, 60, 0, 4, 192, 0, 2, 2>>),
      UnknownImage,
      \* a response with the result code 15 and one answer
      Image(<<26, 12, 129, 143, 0, 0, 0, 1, 0, 0, 0, 0,
              1, 97, 0, 0, 1, 0, 1, 0, 0, 0, 60, 0, 4, 203, 0, 113, 9>>) }

\* The buffers the codec starts from, each with the position of the cursor.
Inputs ==
    {Cursor(BufferNew, pos) : pos \in {0, 500, 510, 511, 512}}
    \cup {Cursor(PointerImage, pos) : pos \in {0, 2, 4, 10, 12, 15, 21, 23, 27, 29, 31}}
    \cup {Cursor(EndImage, pos) : pos \in {504, 507, 508}}
    \cup {Cursor(EndPointerImage, pos) : pos \in {509, 511}}
    \cup {Cursor(img, 0) : img \in RecordImages \cup PacketImages}

\* A label of n octets.
LabelOf(n) == [i \in 1..n |-> 97]

\* The names encoded: names within the limits, among them the root name, a name
\* with a dot at its end and a name with capitals; a name of 255 octets and a
\* label of 63; a name of 256 octets, with a label of 64; names of a label of 64
\* after a short label, and of labels of 64 and 65.
Name255 ==
    LabelOf(63) \o <<46>> \o LabelOf(63) \o <<46>> \o LabelOf(63) \o <<46>> \o LabelOf(63)
Name256 ==
    LabelOf(63) \o <<46>> \o LabelOf(63) \o <<46>> \o LabelOf(63) \o <<46>> \o LabelOf(64)

\* A name of 192 + n octets: three labels of 63 and one of n.
NameEndingWith(n) ==
    LabelOf(63) \o <<46>> \o LabelOf(63) \o <<46>> \o LabelOf(63) \o <<46>> \o LabelOf(n)

Names ==
    { NameBytes("a.com"), NameBytes("WWW.Example.COM"), NameBytes(""),
      NameBytes("com."), LabelOf(63), Name255, Name256,
      <<97, 46>> \o LabelOf(64), LabelOf(64) \o <<46>> \o LabelOf(65) }

\* A header by its flags, opcode, result code and counts: bits 0 to 3 of a are
\* recursion_desired, truncated_message, authoritative_answer and response,
\* those of f checking_disabled, authed_data, z and recursion_available.
Header(id, a, opcode, f, rescode, counts) ==
    [id |-> id,
     recursion_desired |-> a % 2 = 1,
     truncated_message |-> (a \div 2) % 2 = 1,
     authoritative_answer |-> (a \div 4) % 2 = 1,
     opcode |-> opcode,
     response |-> (a \div 8) % 2 = 1,
     rescode |-> rescode,
     checking_disabled |-> f % 2 = 1,
     authed_data |-> (f \div 2) % 2 = 1,
     z |-> (f \div 4) % 2 = 1,
     recursion_available |-> (f \div 8) % 2 = 1,
     questions |-> counts[1],
     answers |-> counts[2],
     authoritative_entries |-> counts[3],
     resource_entries |-> counts[4]]

\* The headers encoded: no flag and every flag, and each flag set in some and
\* clear in others; opcodes from 0 to 15; the six result codes.
Headers ==
    { DnsHeaderNew,
      Header(6666, 9, 2, 0, "NameError", <<0, 0, 0, 0>>),
      Header(65535, 15, 15, 15, "Refused", <<1, 2, 3, 4>>),
      Header(1, 2, 0, 0, "FormatError", <<0, 1, 0, 0>>),
      Header(2, 4, 1, 0, "ServerFailure", <<0, 0, 1, 0>>),
      Header(3, 0, 8, 1, "NotImplemented", <<0, 0, 0, 1>>),
      Header(4, 0, 4, 2, "NoError", <<256, 0, 0, 0>>),
      Header(5, 1, 0, 4, "NoError", <<0, 0, 0, 0>>),
      Header(6, 8, 0, 8, "NoError", <<0, 0, 0, 0>>) }

Questions ==
    { DnsQuestionNew(NameBytes("a.com"), QueryType("A"), QueryClass("IN")),
      DnsQuestionNew(NameBytes("www.example.com"), QueryType("MX"), QueryClass("CH")) }

Records ==
    { A(NameBytes("a.com"), <<203, 0, 113, 9>>, U32(0, 60)),
      NS(NameBytes("com"), NameBytes("ns.com"), U32(0, 300)),
      CNAME(NameBytes("www.example.com"), NameBytes("a.com"), U32(256, 1)),
      MX(NameBytes("a.com"), 10, NameBytes("ns.org"), U32(0, 60)),
      AAAA(NameBytes("a.com"), <<8193, 3512, 0, 0, 0, 0, 0, 1>>, U32(0, 60)),
      UNHANDLED(NameBytes("a.com"), QueryType("TXT"), 3, U32(0, 60)),
      A(Name256, <<203, 0, 113, 9>>, U32(0, 60)) }

\* A packet with a header and sections.
Packet(header, questions, answers, authorities, resources) ==
    [header |-> header, questions |-> questions, answers |-> answers,
     authorities |-> authorities, resources |-> resources]

QuestionA == DnsQuestionNew(NameBytes("a.com"), QueryType("A"), QueryClass("IN"))

\* The packets encoded: the empty packet; the query of lookup; a response whose
\* header counts are not those of its sections; a response with each written
\* variant but AAAA; one with an AAAA answer; one with an UNHANDLED answer between
\* two others; one that does not fit the buffer.
Packets ==
    { DnsPacketNew,
      Packet(Header(6666, 0, 0, 0, "NoError", <<1, 0, 0, 0>>), <<QuestionA>>,
             << >>, << >>, << >>),
      Packet(Header(7, 9, 0, 8, "NoError", <<9, 0, 7, 65535>>), <<QuestionA>>,
             <<CNAME(NameBytes("a.com"), NameBytes("www.example.com"), U32(0, 60))>>,
             <<NS(NameBytes("com"), NameBytes("ns.com"), U32(0, 60)),
               NS(NameBytes("com"), NameBytes("ns2.com"), U32(0, 60))>>,
             <<A(NameBytes("ns.com"), <<192, 0, 2, 2>>, U32(0, 60))>>),
      Packet(Header(8, 9, 0, 8, "NoError", <<1, 2, 1, 1>>), <<QuestionA>>,
             <<MX(NameBytes("a.com"), 10, NameBytes("ns.org"), U32(0, 60)),
               A(NameBytes("a.com"), <<203, 0, 113, 9>>, U32(0, 60))>>,
             <<NS(NameBytes("com"), NameBytes("ns.com"), U32(0, 60))>>,
             <<CNAME(NameBytes("ns.com"), NameBytes("ns.net"), U32(0, 60))>>),
      Packet(Header(9, 9, 0, 8, "NoError", <<1, 1, 0, 0>>), <<QuestionA>>,
             <<AAAA(NameBytes("a.com"), <<8193, 3512, 0, 0, 0, 0, 0, 1>>, U32(0, 60))>>,
             << >>, << >>),
      Packet(Header(10, 9, 0, 8, "NoError", <<1, 3, 0, 0>>), <<QuestionA>>,
             <<A(NameBytes("a.com"), <<203, 0, 113, 9>>, U32(0, 60)),
               UNHANDLED(NameBytes("a.com"), QueryType("TXT"), 3, U32(0, 60)),
               A(NameBytes("a.com"), <<203, 0, 113, 10>>, U32(0, 60))>>,
             << >>, << >>),
      Packet(Header(11, 9, 0, 8, "NoError", <<1, 2, 0, 0>>), <<QuestionA>>,
             <<CNAME(Name255, Name255, U32(0, 60)), CNAME(Name255, Name255, U32(0, 60))>>,
             << >>, << >>),
      \* replies whose encoding takes 512 octets and 511: the header 12, the
      \* question 11, the record 257 + 10 + 222 or 221
      Packet(Header(12, 9, 0, 8, "NoError", <<1, 1, 0, 0>>), <<QuestionA>>,
             <<CNAME(Name255, NameEndingWith(28), U32(0, 60))>>, << >>, << >>),
      Packet(Header(13, 9, 0, 8, "NoError", <<1, 1, 0, 0>>), <<QuestionA>>,
             <<CNAME(Name255, NameEndingWith(27), U32(0, 60))>>, << >>, << >>) }

(***************************************************************************)
(* The codec as a state machine: one buffer, the operations applied to it, *)
(* and the transmission of encoded octets into a new buffer.               *)
(***************************************************************************)
\* The operations that encode a value.
Encoders ==
    {"write_question_name", "DnsHeader_write", "DnsQuestion_write",
     "DnsRecord_write", "DnsPacket_write"}

\* The buffer holds received octets and the cursor has reached a position in it.
CodecInit ==
    /\ \E c \in Inputs : buffer = c.buffer /\ position = c.position
    /\ qn = NoCall
    /\ rd = NoCall
    /\ done = NoneDone
    /\ source = NoSource
    /\ ops = 0
    /\ hops = 0
    /\ pc = "recv"
    /\ incoming = DnsPacketNew
    /\ packet = DnsPacketNew
    /\ stack = << >>
    /\ ret = NoResult
    /\ inbound = NoInbound
    /\ trace = << >>
    /\ result = NoResult
    /\ reply = NoReply
    /\ outcome = "none"

\* An operation can be called.
Idle == ~qn.active /\ ~rd.active /\ ops < MaxOps

\* The operation op, called with arg, has returned r.
Returns(op, arg, r) ==
    /\ buffer' = r.b.buffer
    /\ position' = r.b.position
    /\ done' = [op |-> op, arg |-> arg, start |-> position, ok |-> r.ok,
                value |-> r.value, error |-> r.error]
    /\ ops' = ops + 1
    /\ UNCHANGED <<qn, rd, source, hops, serverVars>>

Read == Idle /\ Returns("read", 0, read(Cursor(buffer, position)))

ReadU16 == Idle /\ Returns("read_u16", 0, read_u16(Cursor(buffer, position)))

ReadU32 == Idle /\ Returns("read_u32", 0, read_u32(Cursor(buffer, position)))

Get(pos) == Idle /\ Returns("get", pos, get(Cursor(buffer, position), pos))

GetRange(start, length) ==
    Idle /\ Returns("get_range", <<start, length>>,
                    get_range(Cursor(buffer, position), start, length))

Write(value) == Idle /\ Returns("write", value, write(Cursor(buffer, position), value))

WriteU16(val) ==
    Idle /\ Returns("write_u16", val, write_u16(Cursor(buffer, position), val))

WriteU32(val) ==
    Idle /\ Returns("write_u32", val, write_u32(Cursor(buffer, position), val))

\* step returns nothing and cannot fail.
Step(n) == Idle /\ Returns("step", n, Good(step(Cursor(buffer, position), n), 0))

\* read_qname is called: its locals are set.
ReadQnameCall ==
    /\ Idle
    /\ qn' = [active |-> TRUE, start |-> position, iterations |-> 0,
              l |-> QnameLocals(Cursor(buffer, position))]
    /\ UNCHANGED <<buffer, position, rd, done, source, ops, hops, serverVars>>

\* One iteration of the loop of read_qname; the iteration that leaves the loop
\* returns.
ReadQnameEnds(s) ==
    IF s.status = "loop"
    THEN /\ qn' = [qn EXCEPT !.l = s.l, !.iterations = @ + 1]
         /\ position' = s.b.position
         /\ UNCHANGED <<buffer, rd, done, source, ops, hops, serverVars>>
    ELSE /\ qn' = NoCall
         /\ buffer' = s.r.b.buffer
         /\ position' = s.r.b.position
         /\ done' = [op |-> "read_qname", arg |-> 0, start |-> qn.start,
                     ok |-> s.r.ok, value |-> s.r.value, error |-> s.r.error,
                     jumps |-> s.l.jumps_performed,
                     iterations |-> qn.iterations + 1]
         /\ ops' = ops + 1
         /\ UNCHANGED <<rd, source, hops, serverVars>>

ReadQnameLoop ==
    /\ qn.active
    /\ ReadQnameEnds(QnameIter(Cursor(buffer, position), qn.l))

WriteQuestionName(value) ==
    Idle /\ Returns("write_question_name", value,
                    write_question_name(Cursor(buffer, position), value))

WriteHeader(h) ==
    Idle /\ Returns("DnsHeader_write", h, DnsHeader_write(Cursor(buffer, position), h))

ReadHeader == Idle /\ Returns("DnsHeader_read", 0, DnsHeader_read(Cursor(buffer, position)))

WriteQuestion(q) ==
    Idle /\ Returns("DnsQuestion_write", q, DnsQuestion_write(Cursor(buffer, position), q))

ReadQuestion ==
    Idle /\ Returns("DnsQuestion_read", 0, DnsQuestion_read(Cursor(buffer, position)))

WriteRecord(rec) ==
    Idle /\ Returns("DnsRecord_write", rec, DnsRecord_write(Cursor(buffer, position), rec))

ReadRecord == Idle /\ Returns("DnsRecord_read", 0, DnsRecord_read(Cursor(buffer, position)))

WritePacket(p) ==
    Idle /\ Returns("DnsPacket_write", p, DnsPacket_write(Cursor(buffer, position), p))

\* from_buffer is called: the header is read, and its error returned.
ReadPacketBegins(r) ==
    IF ~r.ok
    THEN Returns("from_buffer", 0, r)
    ELSE /\ rd' = [active |-> TRUE, start |-> position,
                   l |-> FromBufferLocals(r.value)]
         /\ position' = r.b.position
         /\ UNCHANGED <<buffer, qn, done, source, ops, hops, serverVars>>

ReadPacketCall ==
    /\ Idle
    /\ ReadPacketBegins(DnsHeader_read(Cursor(buffer, position)))

\* One iteration of the loops of from_buffer; the last returns the packet.
ReadPacketEnds(s) ==
    IF s.status = "loop"
    THEN /\ rd' = [rd EXCEPT !.l = s.l]
         /\ position' = s.b.position
         /\ UNCHANGED <<buffer, qn, done, source, ops, hops, serverVars>>
    ELSE /\ rd' = NoCall
         /\ buffer' = s.r.b.buffer
         /\ position' = s.r.b.position
         /\ done' = [op |-> "from_buffer", arg |-> 0, start |-> rd.start,
                     ok |-> s.r.ok, value |-> s.r.value, error |-> s.r.error]
         /\ ops' = ops + 1
         /\ UNCHANGED <<qn, source, hops, serverVars>>

ReadPacketLoop ==
    /\ rd.active
    /\ ReadPacketEnds(FromBufferIter(Cursor(buffer, position), rd.l))

\* lookup, main.rs:30-36: what was encoded into a buffer from its start is sent,
\* the octets below the position, and received into a new buffer.  The buffer of
\* a reply (ReencodeHeader) goes to the client and is not received here.
Transmit ==
    /\ ~qn.active
    /\ ~rd.active
    /\ hops < MaxHops
    /\ source.op # "DnsHeader_read"
    /\ done.op \in Encoders
    /\ done.ok
    /\ done.start = 0
    /\ source' = [op |-> done.op, arg |-> done.arg, value |-> done.value,
                  length |-> position]
    /\ buffer' = [i \in Offsets |-> IF i < position THEN buffer[i] ELSE 0]
    /\ position' = 0
    /\ done' = NoneDone
    /\ ops' = 0
    /\ hops' = hops + 1
    /\ UNCHANGED <<qn, rd, serverVars>>

\* handle_query, main.rs:171: the octets of the reply encoded are taken from the
\* buffer to be sent.
TakeEncoded ==
    /\ ~qn.active
    /\ ~rd.active
    /\ done.op = "DnsPacket_write"
    /\ done.ok
    /\ done.start = 0
    /\ Returns("get_range", <<0, position>>,
               get_range(Cursor(buffer, position), 0, position))

\* handle_query, main.rs:143 and 168-169: a header that was decoded is encoded
\* into a new buffer.
ReencodeHeader ==
    /\ ~qn.active
    /\ ~rd.active
    /\ hops < MaxHops
    /\ done.op = "DnsHeader_read"
    /\ done.ok
    /\ \E r \in {DnsHeader_write(Cursor(BufferNew, 0), done.value)} :
            /\ buffer' = r.b.buffer
            /\ position' = r.b.position
            /\ done' = [op |-> "DnsHeader_write", arg |-> done.value, start |-> 0,
                        ok |-> r.ok, value |-> r.value, error |-> r.error]
    /\ source' = [op |-> "DnsHeader_read", arg |-> 0, value |-> done.value,
                  length |-> HeaderLen,
                  octets |-> [i \in 1..HeaderLen |-> buffer[done.start + i - 1]]]
    /\ ops' = ops + 1
    /\ hops' = hops + 1
    /\ UNCHANGED <<qn, rd, serverVars>>

CodecNext ==
    \/ Read
    \/ ReadU16
    \/ ReadU32
    \/ \E pos \in {0, 511, 512} : Get(pos)
    \/ \E r \in {<<0, 12>>, <<508, 3>>, <<508, 4>>, <<512, 0>>} : GetRange(r[1], r[2])
    \/ Write(171)
    \/ WriteU16(49164)
    \/ WriteU32(U32(258, 772))
    \/ \E n \in {1, 600} : Step(n)
    \/ ReadQnameCall
    \/ ReadQnameLoop
    \/ \E value \in Names : WriteQuestionName(value)
    \/ \E h \in Headers : WriteHeader(h)
    \/ ReadHeader
    \/ \E q \in Questions : WriteQuestion(q)
    \/ ReadQuestion
    \/ \E rec \in Records : WriteRecord(rec)
    \/ ReadRecord
    \/ \E p \in Packets : WritePacket(p)
    \/ ReadPacketCall
    \/ ReadPacketLoop
    \/ Transmit
    \/ TakeEncoded
    \/ ReencodeHeader

CodecSpec == CodecInit /\ [][CodecNext]_vars

(***************************************************************************)
(* The read-only views of a packet, each applied to a decoded response.    *)
(***************************************************************************)
\* A referral with two name servers of the zone: the first has glue, the second
\* has none.
RespGlueFirst ==
    Response("NoError", << >>,
             <<RecNS("com", "ns.com"), RecNS("com", "ns.net")>>,
             <<RecA("ns.com", Server2)>>)

\* A response was decoded; no view was applied to it.
ViewInit ==
    /\ packet \in UpstreamResponses \cup {RespGlueFirst}
    /\ done = NoneDone
    /\ pc = "recv"
    /\ incoming = DnsPacketNew
    /\ stack = << >>
    /\ ret = NoResult
    /\ inbound = NoInbound
    /\ trace = << >>
    /\ result = NoResult
    /\ reply = NoReply
    /\ outcome = "none"
    /\ buffer = << >>
    /\ position = 0
    /\ qn = NoCall
    /\ rd = NoCall
    /\ source = NoSource
    /\ ops = 0
    /\ hops = 0

GetRandomA ==
    /\ done' = [op |-> "get_random_a", arg |-> "", value |-> get_random_a(packet)]
    /\ UNCHANGED <<pc, incoming, packet, stack, ret, inbound, trace, result, reply,
                   outcome, buffer, position, qn, rd, source, ops, hops>>

GetResolvedNs(question_name) ==
    /\ done' = [op |-> "get_resolved_ns", arg |-> question_name,
                value |-> get_resolved_ns(packet, question_name)]
    /\ UNCHANGED <<pc, incoming, packet, stack, ret, inbound, trace, result, reply,
                   outcome, buffer, position, qn, rd, source, ops, hops>>

GetUnresolvedNs(qname) ==
    /\ done' = [op |-> "get_unresolved_ns", arg |-> qname,
                value |-> get_unresolved_ns(packet, qname)]
    /\ UNCHANGED <<pc, incoming, packet, stack, ret, inbound, trace, result, reply,
                   outcome, buffer, position, qn, rd, source, ops, hops>>

ViewNext ==
    \/ GetRandomA
    \/ \E name \in {"a.com", "ns.net", "ns.org", "com"} : GetResolvedNs(name)
    \/ \E name \in {"a.com", "ns.net", "ns.org", "com"} : GetUnresolvedNs(name)

ViewSpec == ViewInit /\ [][ViewNext]_vars

(***************************************************************************)
(* The properties.  They are stated on the fields of the packets and on    *)
(* the observed calls, not with the operators that model the code.         *)
(***************************************************************************)
\* t is a suffix of s.
IsSuffix(t, s) ==
    \E k \in 0..Len(Chars(s)) :
        [i \in 1..(Len(Chars(s)) - k) |-> Chars(s)[k + i]] = Chars(t)

\* The innermost activation holds the response of its candidate server and is
\* about to act on it.
AtResponse == pc = "resolve" /\ stack # << >> /\ Top.pc = "decide"

\* In the step taken, the innermost activation returns p and no query is sent.
ReturnsNow(p) == stack' = Pop /\ ret' = Ok(p) /\ trace' = trace

HasAnswer(p) == Len(p.answers) >= 1 /\ p.header.rescode = "NoError"

\* The places (i, j) of an applicable delegation with glue: authority record i is
\* an NS record whose domain is a suffix of the name, additional record j an A
\* record whose domain is its host.
GluePlaces(p, name) ==
    {ij \in (DOMAIN p.authorities) \X (DOMAIN p.resources) :
        /\ p.authorities[ij[1]].rtype = "NS"
        /\ IsSuffix(p.authorities[ij[1]].domain, name)
        /\ p.resources[ij[2]].rtype = "A"
        /\ p.resources[ij[2]].domain = p.authorities[ij[1]].host}

\* The first of them, in authority order, then additional order.
FirstGluePlace(p, name) ==
    CHOOSE ij \in GluePlaces(p, name) :
        \A xy \in GluePlaces(p, name) :
            ij[1] < xy[1] \/ (ij[1] = xy[1] /\ ij[2] <= xy[2])

FirstGlueAddr(p, name) == p.resources[FirstGluePlace(p, name)[2]].addr

\* The hosts of the applicable delegations.
ApplicableHosts(p, name) ==
    {p.authorities[i].host : i \in {x \in DOMAIN p.authorities :
        p.authorities[x].rtype = "NS" /\ IsSuffix(p.authorities[x].domain, name)}}

QName(e) == e.query.questions[1].q_name
QType(e) == e.query.questions[1].q_type

\* C1: whenever the response of the candidate server has result code NameError,
\* the activation returns that response unchanged in its next step and sends no
\* query, whatever its authority and additional sections hold.
C1_NameErrorReturned ==
    [][(AtResponse /\ Top.response.header.rescode = "NameError")
            => ReturnsNow(Top.response)]_vars

\* A NameError response that carries an applicable delegation with glue has just
\* been returned, as the last response received.
C1_Witness ==
    /\ ret.tag = "Ok"
    /\ ret.packet.header.rescode = "NameError"
    /\ trace # << >>
    /\ trace[Len(trace)].result = ret
    /\ GluePlaces(ret.packet, QName(trace[Len(trace)])) # {}

\* C2: whenever the response of the candidate server has at least one answer and
\* result code NoError, the activation returns it in its next step and sends no
\* query; a NoError response without answers is not returned by that rule: when
\* it carries an applicable delegation the activation goes on (to the glue
\* address, or into the nested resolution) instead of returning.
C2_AnswerReturned ==
    [][/\ (AtResponse /\ HasAnswer(Top.response)) => ReturnsNow(Top.response)
       /\ (/\ AtResponse
           /\ Top.response.answers = << >>
           /\ Top.response.header.rescode = "NoError"
           /\ ApplicableHosts(Top.response, Top.question_name) # {})
            => (Len(stack') >= Len(stack) /\ ret' = NoResult)]_vars

\* An answer has just been returned by a resolution that had first received a
\* NoError response without answers and had gone on.
C2_Witness ==
    /\ ret.tag = "Ok"
    /\ HasAnswer(ret.packet)
    /\ Len(trace) >= 2
    /\ trace[Len(trace)].result = ret
    /\ trace[1].result.tag = "Ok"
    /\ trace[1].result.packet.answers = << >>
    /\ trace[1].result.packet.header.rescode = "NoError"

\* The response of call k of the trace is a referral: decoded, neither an answer
\* nor NameError.
IsReferralAt(k) ==
    /\ trace[k].result.tag = "Ok"
    /\ ~HasAnswer(trace[k].result.packet)
    /\ trace[k].result.packet.header.rescode # "NameError"

\* C3: after a referral that holds an applicable delegation with glue, the next
\* query is sent by the same activation to the first glue address (authority
\* order, then additional order), for the same name and type.  A delegation
\* whose domain is no suffix of the name never picks the next server: a query
\* that follows a response in the same activation goes to the glue address of an
\* applicable delegation, and a nested resolution that follows it is for the
\* host of one.
C3_GlueSwitch ==
    \A k \in 1..(Len(trace) - 1) :
        LET e == trace[k]
            n == trace[k + 1]
            p == e.result.packet
        IN  /\ (IsReferralAt(k) /\ GluePlaces(p, QName(e)) # {})
                => /\ n.depth = e.depth
                   /\ n.server = FirstGlueAddr(p, QName(e))
                   /\ QName(n) = QName(e)
                   /\ QType(n) = QType(e)
            /\ (e.result.tag = "Ok" /\ n.depth = e.depth)
                => \E ij \in GluePlaces(p, QName(e)) : n.server = p.resources[ij[2]].addr
            /\ (e.result.tag = "Ok" /\ n.depth > e.depth)
                => QName(n) \in ApplicableHosts(p, QName(e))

\* A query was sent to the first glue address of a referral that offered glue
\* for two applicable delegations and for one of another zone.
C3_Witness ==
    \E k \in 1..(Len(trace) - 1) :
        /\ IsReferralAt(k)
        /\ Cardinality(GluePlaces(trace[k].result.packet, QName(trace[k]))) >= 2
        /\ \E r \in {trace[k].result.packet.authorities[i] :
                        i \in DOMAIN trace[k].result.packet.authorities} :
                r.rtype = "NS" /\ ~IsSuffix(r.domain, QName(trace[k]))
        /\ trace[k + 1].server = FirstGlueAddr(trace[k].result.packet, QName(trace[k]))
        /\ trace[k + 1].server # trace[k].server

\* The address of the first A record among the answers of p.
FirstAAddr(p) ==
    p.answers[CHOOSE i \in DOMAIN p.answers :
                /\ p.answers[i].rtype = "A"
                /\ \A j \in 1..(i - 1) : p.answers[j].rtype # "A"].addr

HasAAnswer(p) == \E i \in DOMAIN p.answers : p.answers[i].rtype = "A"

\* The referral scenario, as far as the answer of the nested resolution: the root
\* server refers to a name server with glue, that server refers to a host
\* without glue, and the nested resolution of the host's A record is answered by
\* the root server with an address.
ReferralScenario ==
    /\ Len(trace) >= 3
    /\ trace[1].depth = 0
    /\ IsReferralAt(1)
    /\ GluePlaces(trace[1].result.packet, QName(trace[1])) # {}
    /\ trace[2].depth = 0
    /\ IsReferralAt(2)
    /\ GluePlaces(trace[2].result.packet, QName(trace[2])) = {}
    /\ ApplicableHosts(trace[2].result.packet, QName(trace[2])) # {}
    /\ trace[3].depth = 1
    /\ trace[3].result.tag = "Ok"
    /\ HasAnswer(trace[3].result.packet)
    /\ HasAAnswer(trace[3].result.packet)

\* C4: every resolution, outer or nested, sends its first query to the root
\* address 198.41.0.4; and in the referral scenario the outer resolution has
\* queried the root server, then the glue address of the first referral, and does
\* not end before it has queried, for the original name and type, the address
\* the nested resolution gave; when that server answers, its answer is what the
\* outer resolution returns, without a further query.
C4_ReferralScenario ==
    /\ \A k \in 1..Len(trace) :
          (k = 1 \/ trace[k].depth > trace[k - 1].depth)
            => /\ trace[k].server = "198.41.0.4"
               /\ trace[k].depth = IF k = 1 THEN 0 ELSE trace[k - 1].depth + 1
    /\ ReferralScenario
        => /\ trace[2].server = FirstGlueAddr(trace[1].result.packet, QName(trace[1]))
           /\ QName(trace[2]) = QName(trace[1]) /\ QType(trace[2]) = QType(trace[1])
           /\ QName(trace[3]) \in ApplicableHosts(trace[2].result.packet, QName(trace[2]))
           /\ QType(trace[3]) = "A"
           /\ (result.tag # "None" \/ (stack = << >> /\ ret.tag # "None"))
                => Len(trace) >= 4
           /\ Len(trace) >= 4
                => /\ trace[4].depth = 0
                   /\ trace[4].server = FirstAAddr(trace[3].result.packet)
                   /\ QName(trace[4]) = QName(trace[1])
                   /\ QType(trace[4]) = QType(trace[1])
                   /\ (trace[4].result.tag = "Ok" /\ HasAnswer(trace[4].result.packet))
                        => /\ Len(trace) = 4
                           /\ result.tag # "None" => result = trace[4].result

\* The scenario has run to its end through three different servers: the answer
\* of the third is the result of the outer resolution.
C4_Witness ==
    /\ ReferralScenario
    /\ Len(trace) = 4
    /\ trace[1].server = "198.41.0.4"
    /\ trace[3].server = "198.41.0.4"
    /\ Cardinality({trace[1].server, trace[2].server, trace[4].server}) = 3
    /\ HasAnswer(trace[4].result.packet)
    /\ result = trace[4].result

\* The response the activation at depth d received last.
LastResponseAt(d) ==
    trace[CHOOSE k \in 1..Len(trace) :
            /\ trace[k].depth = d
            /\ \A j \in (k + 1)..Len(trace) : trace[j].depth # d].result.packet

\* The nested call has returned to the innermost activation.
AtNestedReturn ==
    pc = "resolve" /\ stack # << >> /\ Top.pc = "nested" /\ ret.tag # "None"

\* C5: when the response is neither an answer nor NameError and holds no NS
\* record whose domain is a suffix of the name, the activation returns it in its
\* next step; when the nested resolution of a name server's host returns a
\* packet without an A record among its answers, the activation returns the last
\* response it received itself.  Both return it unchanged and send no query.
C5_BestEffortDegrade ==
    [][/\ (/\ AtResponse
           /\ ~HasAnswer(Top.response)
           /\ Top.response.header.rescode # "NameError"
           /\ ApplicableHosts(Top.response, Top.question_name) = {})
            => ReturnsNow(LastResponseAt(Len(stack) - 1))
       /\ (AtNestedReturn /\ ret.tag = "Ok" /\ ~HasAAnswer(ret.packet))
            => ReturnsNow(LastResponseAt(Len(stack) - 1))]_vars

\* The outermost resolution has returned its referral after the nested
\* resolution of the referral's host returned a different packet, without an A
\* record.
C5_Witness ==
    /\ pc = "resolve"
    /\ stack = << >>
    /\ ret.tag = "Ok"
    /\ Len(trace) >= 2
    /\ trace[1].depth = 0
    /\ ret.packet = trace[1].result.packet
    /\ \A k \in 2..Len(trace) : trace[k].depth >= 1
    /\ trace[Len(trace)].depth = 1
    /\ trace[Len(trace)].result.tag = "Ok"
    /\ trace[Len(trace)].result.packet # ret.packet
    /\ ~HasAAnswer(trace[Len(trace)].result.packet)

\* C6: a call of lookup that fails, at any depth, is the last one made for the
\* inbound query (no retry, no further query), and its error is what every
\* activation up to the outermost returns: while the resolution unwinds the
\* returned value is that error, and the outermost recursive_lookup returns it,
\* never a packet.
C6_ErrorAborts ==
    \A k \in 1..Len(trace) :
        trace[k].result.tag = "Err"
            => /\ k = Len(trace)
               /\ pc = "resolve" => ret = trace[k].result
               /\ pc # "resolve" => result = trace[k].result

\* The outermost resolution has returned the transport or parse error of a
\* query made by a nested one, after an earlier successful round trip.
C6_Witness ==
    /\ Len(trace) >= 2
    /\ trace[Len(trace)].depth >= 1
    /\ trace[Len(trace)].result.tag = "Err"
    /\ trace[Len(trace)].result.error \in {"bind", "recv_from", "from_buffer"}
    /\ result = trace[Len(trace)].result

\* Call k of the trace got a referral with an applicable delegation.
IsApplicableReferralAt(k) ==
    /\ IsReferralAt(k)
    /\ ApplicableHosts(trace[k].result.packet, QName(trace[k])) # {}

\* C7: there is no bound on the switches or on the nesting: as long as every
\* response is a referral that holds an applicable delegation with glue, or one
\* without glue whose host's resolution can start, the resolution has not
\* returned, however many queries it has sent, to however few servers: it sends
\* the next query or starts the next nested resolution.
C7_NoStepBound ==
    (trace # << >> /\ \A k \in 1..Len(trace) : IsApplicableReferralAt(k))
        => /\ pc = "resolve"
           /\ ret = NoResult
           /\ result = NoResult
           /\ stack # << >>
           /\ Top.pc \in {"lookup", "decide"}
           /\ Len(stack) =
                1 + Cardinality({k \in 1..Len(trace) :
                    GluePlaces(trace[k].result.packet, QName(trace[k])) = {}
                    /\ (k < Len(trace) \/ Top.pc = "lookup")})

\* As many queries as the model allows have gone to one server, for one name
\* and type, each answered by the same referral to that server, and the
\* activation is about to send the same query to it again.
C7_Witness ==
    /\ Len(trace) = MaxQueries
    /\ \A k \in 1..Len(trace) :
          /\ IsApplicableReferralAt(k)
          /\ trace[k] = trace[1]
          /\ GluePlaces(trace[k].result.packet, QName(trace[k])) # {}
          /\ FirstGlueAddr(trace[k].result.packet, QName(trace[k])) = trace[k].server
    /\ Len(stack) = 1
    /\ Top.pc = "lookup"
    /\ Top.ns = trace[1].server
    /\ Top.question_name = QName(trace[1])
    /\ Top.question_type = QType(trace[1])

\* Reply p carries the transaction id of the decoded request with the response
\* flag set, and what the request and the result of its resolution call for.
ReplyAsClaimed(p) ==
    /\ inbound.tag = "Ok"
    /\ p.header.id = inbound.packet.header.id
    /\ p.header.response = TRUE
    /\ inbound.packet.questions = << >>
        => /\ p.header.rescode = "FormatError"
           /\ trace = << >>
           /\ result = NoResult
    /\ inbound.packet.questions # << >>
        => /\ result.tag \in {"Ok", "Err"}
           /\ result.tag = "Err"
                => /\ p.header.rescode = "ServerFailure"
                   /\ p.answers = << >>
                   /\ p.authorities = << >>
                   /\ p.resources = << >>
           /\ result.tag = "Ok"
                => /\ p.header.rescode = result.packet.header.rescode
                   /\ p.answers = result.packet.answers
                   /\ p.authorities = result.packet.authorities
                   /\ p.resources = result.packet.resources

ReceivesNext ==
    \/ inbound' # inbound
    \/ outcome # "none" /\ outcome' = "none"
    \/ reply.sent /\ ~reply'.sent
    \/ trace # << >> /\ trace' = << >>

\* C10: queries are handled one at a time: the server waits for a datagram
\* exactly when no query is being handled, and takes the next one only then;
\* and once handle_query has ended, with a reply sent or with any error, main
\* waits for the next datagram and nothing of the program's state is left of
\* the query: no activation, no returned value, no request, no reply packet.
C10_Sequential ==
    /\ [](/\ outcome # "none"
            => /\ pc = "recv"
               /\ stack = << >>
               /\ ret = NoResult
               /\ incoming = DnsPacketNew
               /\ packet = DnsPacketNew
          /\ pc = "recv" <=> (outcome # "none" \/ inbound = NoInbound))
    /\ [][ReceivesNext => (pc = "recv" /\ (outcome # "none" \/ inbound = NoInbound))]_vars

\* The server waits for the next datagram after a query whose resolution ended
\* in an error and whose reply could not be sent.
C10_Witness ==
    /\ pc = "recv"
    /\ outcome = "send_to"
    /\ result.tag = "Err"
    /\ trace # << >>

(***************************************************************************)
(* The properties of the codec.  They are stated on what a call leaves     *)
(* behind: the octets of the buffer, the position, and the call recorded   *)
(* in done with the position it started at and what it returned.           *)
(***************************************************************************)
\* An operation has returned in this step.
Returned == ops' = ops + 1

\* No call is in progress: the position is where the last call left it.
AtRest == ~qn.active /\ ~rd.active

\* The operation that returned was refused with EndOfBuffer.
RefusedAtEnd == ~done'.ok /\ done'.error = EndOfBuffer

\* The number of octets a read or write of this name moves over.
Width(op) ==
    CASE op \in {"read", "write"} -> 1
      [] op \in {"read_u16", "write_u16"} -> 2
      [] op \in {"read_u32", "write_u32"} -> 4
      [] OTHER -> 0

\* C11: a read or a write with the position at or beyond 512, and a get of an
\* offset at or beyond 512, return EndOfBuffer and leave the octets of the buffer
\* and the position as they were; a read or write of a u16 or a u32 that starts
\* below 512 and does not end below it returns EndOfBuffer too, and a range that
\* reaches offset 512 is refused likewise.
C11_OutOfBounds ==
    [][Returned =>
        /\ (Width(done'.op) > 0 /\ done'.start >= BufferSize)
            => (RefusedAtEnd /\ buffer' = buffer /\ position' = position)
        /\ (done'.op = "get" /\ done'.arg >= BufferSize)
            => (RefusedAtEnd /\ buffer' = buffer /\ position' = position)
        /\ (Width(done'.op) > 1 /\ done'.start + Width(done'.op) > BufferSize)
            => (RefusedAtEnd /\ \A i \in Offsets : i < done'.start => buffer'[i] = buffer[i])
        /\ (done'.op = "get_range" /\ done'.arg[1] + done'.arg[2] >= BufferSize)
            => (RefusedAtEnd /\ buffer' = buffer /\ position' = position)]_vars

\* A write was called with the position beyond the last octet and refused.
C11_Witness ==
    /\ done.op = "write"
    /\ done.start >= BufferSize
    /\ ~done.ok
    /\ done.error = EndOfBuffer
    /\ position = done.start

\* The path of a name through a buffer, walked from offset pos with jumps
\* pointers followed so far: it ends at the zero octet of a name ("name"), at an
\* octet that lies at or beyond the capacity ("out"), or with more pointers
\* followed than the limit of 5 ("limit").
RECURSIVE Walk(_, _, _)
Walk(buf, pos, jumps) ==
    IF jumps > 5 THEN [end |-> "limit", jumps |-> jumps]
    ELSE IF pos >= BufferSize THEN [end |-> "out", jumps |-> jumps]
    ELSE IF buf[pos] >= 192
    THEN IF pos + 1 >= BufferSize THEN [end |-> "out", jumps |-> jumps]
         ELSE Walk(buf, (buf[pos] - 192) * 256 + buf[pos + 1], jumps + 1)
    ELSE IF buf[pos] = 0 THEN [end |-> "name", jumps |-> jumps]
    ELSE IF pos + 1 + buf[pos] >= BufferSize THEN [end |-> "out", jumps |-> jumps]
    ELSE Walk(buf, pos + 1 + buf[pos], jumps)

\* The two octets at pos are a pointer to pos.
SelfPointer(buf, pos) ==
    /\ pos + 1 < BufferSize
    /\ buf[pos] = 192 + pos \div 256
    /\ buf[pos + 1] = pos % 256

\* C12: the decode of a name ends, from every position of every buffer: each
\* iteration of its loop either follows one more pointer, of at most 6 in all, or
\* moves its local position forward from below the capacity.  It follows at most
\* 5 pointers with success: a path with more than 5 pointers, a pointer to itself
\* among them, ends with ExceededJumpCount(5), and a path of at most 5 pointers
\* that reaches the end of a name is decoded.
C12_DecodeTerminates ==
    /\ [][(qn.active /\ qn'.active) =>
            \/ /\ qn'.l.jumps_performed = qn.l.jumps_performed + 1
               /\ qn'.l.jumps_performed <= max_jumps + 1
            \/ /\ qn'.l.jumps_performed = qn.l.jumps_performed
               /\ qn.l.current_position < BufferSize
               /\ qn'.l.current_position > qn.l.current_position]_vars
    /\ [](done.op = "read_qname" =>
            /\ done.jumps <= max_jumps + 1
            /\ done.ok <=> Walk(buffer, done.start, 0).end = "name"
            /\ done.ok => done.jumps = Walk(buffer, done.start, 0).jumps
            /\ (~done.ok /\ done.error = ExceededJumpCount(5))
                <=> Walk(buffer, done.start, 0).end = "limit"
            /\ SelfPointer(buffer, done.start)
                => (~done.ok /\ done.error = ExceededJumpCount(5)))

\* A name behind a chain of exactly 5 pointers was decoded.
C12_Witness ==
    /\ done.op = "read_qname"
    /\ done.ok
    /\ done.jumps = max_jumps
    /\ done.value = <<97>>
    /\ buffer[done.start] = 192

\* The offsets (from 1) at which the labels of a name start: the first, and the
\* one after each dot.
LabelStarts(v) == {1} \cup {i + 1 : i \in {j \in 1..Len(v) : v[j] = 46}}

\* The length of the label that starts at i: up to the next dot or the end.
LabelLength(v, i) ==
    LET stops == {j \in i..(Len(v) + 1) : j = Len(v) + 1 \/ v[j] = 46}
    IN  (CHOOSE j \in stops : \A k \in stops : j <= k) - i

\* The starts of the labels of more than 63 octets.
LongLabels(v) == {i \in LabelStarts(v) : LabelLength(v, i) > 63}

\* The index, from 0, of the label that starts at i.
LabelIndex(v, i) == Cardinality({j \in LabelStarts(v) : j < i})

WithoutEndDot(v) ==
    IF v # << >> /\ v[Len(v)] = 46 THEN SubSeq(v, 1, Len(v) - 1) ELSE v

\* The offsets of the zero octets among the first n octets of the buffer.
ZeroOctets(n) == {i \in Offsets : i < n /\ buffer[i] = 0}

\* C14: a name that was encoded at the start of a buffer, the root name and a
\* name with a dot at its end included, has exactly one zero octet in its
\* encoding, the last octet, and no pointer; its decode from the start returns
\* the name in lower case and leaves the position where the encode ended.
C14_NameRoundTrip ==
    (source.op = "write_question_name" /\ done.op = "read_qname" /\ done.start = 0) =>
        /\ ZeroOctets(source.length) = {source.length - 1}
        /\ done.ok
        /\ done.jumps = 0
        /\ done.value \in {Lowercase(source.arg), Lowercase(WithoutEndDot(source.arg))}
        /\ position = source.length

\* The six result codes in the order of their numbers, from 0.
RescodeOrder ==
    <<"NoError", "FormatError", "ServerFailure", "NameError", "NotImplemented", "Refused">>

\* The 12 octets of a header as the layout of the wire has them: the flags
\* added up bit by bit.
HeaderOctets(h) ==
    LET bit(flag, k) == IF flag THEN 2 ^ k ELSE 0
        code == (CHOOSE k \in 1..6 : RescodeOrder[k] = h.rescode) - 1
        u16(v) == <<v \div 256, v % 256>>
    IN  u16(h.id)
        \o <<bit(h.recursion_desired, 0) + bit(h.truncated_message, 1)
               + bit(h.authoritative_answer, 2) + h.opcode * 8 + bit(h.response, 7),
             code + bit(h.checking_disabled, 4) + bit(h.authed_data, 5)
               + bit(h.z, 6) + bit(h.recursion_available, 7)>>
        \o u16(h.questions) \o u16(h.answers)
        \o u16(h.authoritative_entries) \o u16(h.resource_entries)

\* C15: a header with an opcode of 0 to 15 that was encoded where the buffer has
\* room for it lies there as its id, the two flags octets of the layout and the
\* counts of questions, answers, authority and additional records, in this order
\* (recursion desired, response, opcode 2 and NameError give 0x91 and 0x03), and
\* the position is left behind them; and
\* the decode of the octets of an encoded header returns a header with every
\* field as it was encoded.
C15_HeaderLayout ==
    /\ (done.op = "DnsHeader_write" /\ done.start + HeaderLen <= BufferSize) =>
        /\ done.ok
        /\ AtRest => position = done.start + HeaderLen
        /\ \A i \in 1..HeaderLen : buffer[done.start + i - 1] = HeaderOctets(done.arg)[i]
        /\ (/\ done.arg.recursion_desired
            /\ done.arg.response
            /\ ~done.arg.truncated_message
            /\ ~done.arg.authoritative_answer
            /\ done.arg.opcode = 2
            /\ done.arg.rescode = "NameError"
            /\ ~done.arg.checking_disabled
            /\ ~done.arg.authed_data
            /\ ~done.arg.z
            /\ ~done.arg.recursion_available)
            => (buffer[done.start + 2] = 145 /\ buffer[done.start + 3] = 3)
    /\ (source.op = "DnsHeader_write" /\ done.op = "DnsHeader_read" /\ done.start = 0) =>
        /\ done.ok
        /\ done.value = source.arg
        /\ AtRest => position = HeaderLen

\* The header of the example was encoded, sent and decoded.
C15_Witness ==
    /\ source.op = "DnsHeader_write"
    /\ source.arg.opcode = 2
    /\ source.arg.rescode = "NameError"
    /\ buffer[2] = 145
    /\ buffer[3] = 3
    /\ done.op = "DnsHeader_read"
    /\ done.ok
    /\ done.value.opcode = 2
    /\ done.value.rescode = "NameError"
    /\ done.value.response

\* The type numbers of the wire for the record variants that are written.
TypeCode(rtype) ==
    CASE rtype = "A" -> 1
      [] rtype = "NS" -> 2
      [] rtype = "CNAME" -> 5
      [] rtype = "MX" -> 15
      [] rtype = "AAAA" -> 28

\* The records of a packet in the order answers, authority, additional.
SectionsInOrder(p) == p.answers \o p.authorities \o p.resources

\* The u16 at an offset of the buffer.
U16At(at) == buffer[at] * 256 + buffer[at + 1]

\* The octets a question takes: its name with one length octet and the zero
\* octet, the type and the class.
QuestionOctets(q) == Len(q.q_name) + 2 + 4

\* C16: a packet that was encoded has in the octets of its header the numbers of
\* its questions, answers, authority and additional records, whatever counts its
\* header held when the encode was called, and so has the header of the packet
\* after the call; behind the header lie the questions, then the records of the
\* answers, of the authority and of the additional section in this order, each
\* record where the records written before it end.
C16_CountsOverwritten ==
    (done.op = "DnsPacket_write" /\ done.ok) =>
        LET p == done.arg
            s == done.start
            recs == SectionsInOrder(p)
            first == s + HeaderLen
                     + SumSeq([k \in DOMAIN p.questions |-> QuestionOctets(p.questions[k])])
            StartOf(k) == first + SumSeq(SubSeq(done.value.written, 1, k - 1))
        IN  /\ U16At(s + 4) = Len(p.questions)
            /\ U16At(s + 6) = Len(p.answers)
            /\ U16At(s + 8) = Len(p.authorities)
            /\ U16At(s + 10) = Len(p.resources)
            /\ done.value.packet.header.questions = Len(p.questions)
            /\ done.value.packet.header.answers = Len(p.answers)
            /\ done.value.packet.header.authoritative_entries = Len(p.authorities)
            /\ done.value.packet.header.resource_entries = Len(p.resources)
            /\ \A k \in DOMAIN p.questions :
                buffer[s + HeaderLen
                       + SumSeq([j \in 1..(k - 1) |-> QuestionOctets(p.questions[j])])]
                    = Len(Split(p.questions[k].q_name)[1])
            /\ Len(done.value.written) = Len(recs)
            /\ \A k \in DOMAIN recs :
                recs[k].rtype # "UNHANDLED" =>
                    U16At(StartOf(k) + Len(recs[k].domain) + 2) = TypeCode(recs[k].rtype)
            /\ AtRest => position = first + SumSeq(done.value.written)

\* A packet whose header held other counts than its sections have was encoded,
\* with records in each of the three sections.
C16_Witness ==
    /\ done.op = "DnsPacket_write"
    /\ done.ok
    /\ done.arg.header.resource_entries = 65535
    /\ done.arg.header.questions = 9
    /\ Len(done.arg.authorities) = 2
    /\ U16At(done.start + 4) = 1
    /\ U16At(done.start + 8) = 2
    /\ U16At(done.start + 10) = 1

\* The number of the records k of from..to (in the order answers, authority,
\* additional) for which the encode of the packet wrote octets.
Serialized(written, from, to) == Cardinality({k \in from..to : written[k] > 0})

\* C17: in the octets of an encoded packet each count of the header is the
\* number of the records of its section that were written, also for a packet
\* that holds records read as unknown; and the decode of the octets sent reads
\* back as many records in each section as were written.
C17_CountsMatchSerialized ==
    /\ (done.op = "DnsPacket_write" /\ done.ok) =>
        LET p == done.arg
            w == done.value.written
            n1 == Len(p.answers)
            n2 == n1 + Len(p.authorities)
        IN  /\ U16At(done.start + 4) = Len(p.questions)
            /\ U16At(done.start + 6) = Serialized(w, 1, n1)
            /\ U16At(done.start + 8) = Serialized(w, n1 + 1, n2)
            /\ U16At(done.start + 10) = Serialized(w, n2 + 1, Len(w))
    /\ (source.op = "DnsPacket_write" /\ done.op = "from_buffer" /\ done.start = 0) =>
        LET p == source.arg
            w == source.value.written
            n1 == Len(p.answers)
            n2 == n1 + Len(p.authorities)
        IN  /\ done.ok
            /\ Len(done.value.questions) = Len(p.questions)
            /\ Len(done.value.answers) = Serialized(w, 1, n1)
            /\ Len(done.value.authorities) = Serialized(w, n1 + 1, n2)
            /\ Len(done.value.resources) = Serialized(w, n2 + 1, Len(w))

\* The buffer holds at its start a record of the name a.com: the type lies at
\* offset 7, the length of the data at 15 and the data from 17.
RecordOfACom ==
    \A i \in 0..6 : buffer[i] = <<1, 97, 3, 99, 111, 109, 0>>[i + 1]

\* C18: the record read from the octets of a record is the variant of its type:
\* of type 28 with 16 octets of data AAAA with the 8 groups of 16 bits of the
\* data as address, of type 1 A with the 4 octets of the data, of types 2 and 5
\* NS and CNAME with the name of the data as host, and of type 15 MX with the u16
\* of the data as preference and the name behind it as host.
C18_ReadDispatch ==
    (done.op = "DnsRecord_read" /\ done.start = 0 /\ RecordOfACom) =>
        LET type == U16At(7)
            rec == done.value
        IN  /\ type \in {1, 2, 5, 15} => done.ok
            /\ (type = 28 /\ U16At(15) = 16) => done.ok
            /\ (type = 28 /\ U16At(15) = 16) =>
                /\ rec.rtype = "AAAA"
                /\ rec.addr = [k \in 1..8 |-> U16At(17 + 2 * (k - 1))]
            /\ type = 1 =>
                /\ rec.rtype = "A"
                /\ rec.addr = [k \in 1..4 |-> buffer[16 + k]]
            /\ type = 2 =>
                /\ rec.rtype = "NS"
                /\ rec.host = read_qname(Cursor(buffer, 17)).value
            /\ type = 5 =>
                /\ rec.rtype = "CNAME"
                /\ rec.host = read_qname(Cursor(buffer, 17)).value
            /\ type = 15 =>
                /\ rec.rtype = "MX"
                /\ rec.preference = U16At(17)
                /\ rec.host = read_qname(Cursor(buffer, 19)).value

\* The records of a packet in all three sections.
AllRecords(p) == p.answers \o p.authorities \o p.resources

\* The flags, the opcode, the result code and the id of a header.
HeaderFlags(h) ==
    <<h.id, h.recursion_desired, h.truncated_message, h.authoritative_answer,
      h.opcode, h.response, h.rescode, h.checking_disabled, h.authed_data, h.z,
      h.recursion_available>>

\* C19: the decode of the octets of an encoded packet that holds only records of
\* the variants A, AAAA, NS, CNAME and MX returns a packet with the same id,
\* flags, opcode and result code, the same names and types of the questions, and
\* the same records in the answers, in the authority and in the additional
\* section.
C19_PacketRoundTrip ==
    (/\ source.op = "DnsPacket_write"
     /\ done.op = "from_buffer"
     /\ done.start = 0
     /\ \A k \in DOMAIN AllRecords(source.arg) :
            AllRecords(source.arg)[k].rtype \in {"A", "AAAA", "NS", "CNAME", "MX"}) =>
        /\ done.ok
        /\ HeaderFlags(done.value.header) = HeaderFlags(source.arg.header)
        /\ Len(done.value.questions) = Len(source.arg.questions)
        /\ \A k \in DOMAIN source.arg.questions :
            /\ done.value.questions[k].q_name = source.arg.questions[k].q_name
            /\ done.value.questions[k].q_type = source.arg.questions[k].q_type
        /\ done.value.answers = source.arg.answers
        /\ done.value.authorities = source.arg.authorities
        /\ done.value.resources = source.arg.resources

\* The calls that read at the position, write at it or encode.
Accessors ==
    {"read", "read_u16", "read_u32", "write", "write_u16", "write_u32",
     "write_question_name", "DnsHeader_write", "DnsHeader_read", "DnsQuestion_write",
     "DnsRecord_write", "DnsPacket_write"}

\* The calls that decode from the position.
Decoders ==
    {"read", "read_u16", "read_u32", "read_qname", "DnsHeader_read",
     "DnsQuestion_read", "DnsRecord_read", "from_buffer"}

\* C20 as claimed: the position lies within 0..512 after every operation, and a
\* step that would move it past the capacity fails.
C20_PositionWithinCapacity ==
    /\ position \in 0..BufferSize
    /\ (done.op = "step" /\ done.start + done.arg > BufferSize) => ~done.ok

\* C20, amended: a step cannot fail and moves the position by its amount, also
\* beyond 512, and so does the step over the data of an unknown record; a read,
\* a write or an encode never moves the position beyond 512; and a read or a
\* decode called with the position at or beyond 512 fails with EndOfBuffer and
\* leaves the position and the buffer as they were.
C20_PositionMayLeaveCapacity ==
    [][Returned =>
        /\ done'.op = "step" =>
            (done'.ok /\ position' = position + done'.arg /\ buffer' = buffer)
        /\ (done'.op = "DnsRecord_read" /\ done'.ok /\ done'.value.rtype = "UNHANDLED") =>
            position' >= done'.start + 11 + done'.value.data_len
        /\ done'.op \in Accessors =>
            (position' <= BufferSize \/ position' = position)
        /\ (done'.op \in Decoders /\ done'.start >= BufferSize) =>
            (RefusedAtEnd /\ position' = done'.start /\ buffer' = buffer)]_vars

\* The record decode has stepped over the data of an unknown record whose data
\* length is 65535, and left the position beyond the capacity.
C20_Witness ==
    /\ done.op = "DnsRecord_read"
    /\ done.ok
    /\ done.value.rtype = "UNHANDLED"
    /\ done.value.data_len = 65535
    /\ position = 65546

\* The offset behind a name that starts at pos, as it lies in a buffer: behind
\* its zero octet when labels alone lead to it, and behind the two octets of the
\* first pointer otherwise.
RECURSIVE AfterName(_, _)
AfterName(buf, pos) ==
    IF pos >= BufferSize THEN pos
    ELSE IF buf[pos] >= 192 THEN pos + 2
    ELSE IF buf[pos] = 0 THEN pos + 1
    ELSE AfterName(buf, pos + 1 + buf[pos])

\* The u32 at an offset of the buffer.
U32At(at) == U32(U16At(at), U16At(at + 2))

\* C21: after the decode of a name that started at p the position is behind the
\* zero octet of the name when no pointer was met, and two octets behind the
\* first pointer otherwise, however many pointers were followed after it and
\* wherever they point; the fields after the name of a question and of a record
\* are read from there.
C21_CursorAfterName ==
    /\ (done.op = "read_qname" /\ done.ok /\ AtRest) =>
        /\ position = AfterName(buffer, done.start)
        /\ done.jumps = 0 => buffer[position - 1] = 0
        /\ done.jumps > 0 => buffer[position - 2] >= 192
    /\ (done.op = "DnsQuestion_read" /\ done.ok /\ AtRest) =>
        /\ position = AfterName(buffer, done.start) + 4
        /\ QueryType_to_num(done.value.q_type) = U16At(AfterName(buffer, done.start))
    /\ (done.op = "DnsRecord_read" /\ done.ok) =>
        done.value.ttl = U32At(AfterName(buffer, done.start) + 4)

\* A name behind a label and a pointer was decoded, and one behind six
\* pointers in a row was: the position is two octets behind the first pointer.
C21_Witness ==
    /\ done.op = "read_qname"
    /\ done.ok
    /\ done.jumps >= 2
    /\ buffer[done.start] = 192
    /\ position = done.start + 2
    /\ position < 12

\* The numbers of questions, answers, authority and additional records a packet
\* holds, and those its header counts.
SectionLens(p) ==
    <<Len(p.questions), Len(p.answers), Len(p.authorities), Len(p.resources)>>
HeaderCounts(h) ==
    <<h.questions, h.answers, h.authoritative_entries, h.resource_entries>>

\* The four counts in the octets of a header that starts at an offset.
CountsAt(at) == <<U16At(at + 4), U16At(at + 6), U16At(at + 8), U16At(at + 10)>>

\* The counts of the header at an offset claim more entries than the octets
\* behind it can hold: a question takes 5 octets at least, a record 11.
ClaimsTooMany(at) ==
    5 * CountsAt(at)[1] + 11 * (CountsAt(at)[2] + CountsAt(at)[3] + CountsAt(at)[4])
        > BufferSize - (at + HeaderLen)

\* No octet behind the header at an offset is a pointer.
NoPointerBehind(at) == \A i \in Offsets : i >= at + HeaderLen => buffer[i] < 192

InterpretedTypes == {1, 2, 5, 15, 28}

\* At an offset of the buffer lies a record of another type, with its name and
\* the 10 octets of type, class, ttl and data length within the buffer.
UnknownRecordAt(at) ==
    /\ Walk(buffer, at, 0).end = "name"
    /\ AfterName(buffer, at) + 10 <= BufferSize
    /\ U16At(AfterName(buffer, at)) \notin InterpretedTypes

\* The record is the UNHANDLED record of the octets at an offset: their type
\* number, ttl and data length.
UnknownRecordOf(rec, at) ==
    /\ rec.rtype = "UNHANDLED"
    /\ QueryType_to_num(rec.qtype) = U16At(AfterName(buffer, at))
    /\ rec.ttl = U32At(AfterName(buffer, at) + 4)
    /\ rec.data_len = U16At(AfterName(buffer, at) + 8)

\* The records of a sequence that are not UNHANDLED.
RECURSIVE Handled(_)
Handled(rs) ==
    IF rs = << >> THEN << >>
    ELSE IF Head(rs).rtype = "UNHANDLED" THEN Handled(Tail(rs))
    ELSE <<Head(rs)>> \o Handled(Tail(rs))

\* C23: the decode of a record whose type is not 1, 2, 5, 15 or 28 returns the
\* UNHANDLED record of its type number, ttl and data length, and leaves the
\* position behind the data, the declared length behind the 10 octets after the
\* name, whatever the octets of the data are.  Within the decode of a packet the
\* step at such a record does not fail, pushes this record, and leaves the
\* position where the next record is read from; so the response with a record of
\* type 16 between two answers is decoded to the records around it, and the
\* name server behind them, as they lie in the buffer.
C23_UnknownSkipped ==
    /\ [][/\ (Returned /\ done'.op = "DnsRecord_read" /\ UnknownRecordAt(position)) =>
                /\ done'.ok
                /\ UnknownRecordOf(done'.value, position)
                /\ position' = AfterName(buffer, position) + 10 + done'.value.data_len
                /\ buffer' = buffer
          /\ (/\ rd.active
              /\ SectionLens(rd.l.result)[1] = CountsAt(rd.start)[1]
              /\ SectionLens(rd.l.result) # CountsAt(rd.start)
              /\ UnknownRecordAt(position)) =>
                /\ rd'.active
                /\ LET rs == SectionsInOrder(rd'.l.result)
                   IN  /\ UnknownRecordOf(rs[Len(rs)], position)
                       /\ position' = AfterName(buffer, position) + 10
                                        + rs[Len(rs)].data_len
                /\ buffer' = buffer]_vars
    /\ []((done.op = "from_buffer" /\ done.start = 0 /\ buffer = UnknownImage) =>
            /\ done.ok
            /\ AtRest => position = 87
            /\ Len(done.value.answers) = 3
            /\ Handled(done.value.answers)
                = <<A(NameBytes("a.com"), <<203, 0, 113, 9>>, U32(0, 60)),
                    A(NameBytes("a.com"), <<203, 0, 113, 10>>, U32(0, 60))>>
            /\ done.value.authorities
                = <<NS(NameBytes("com"), NameBytes("ns.com"), U32(0, 60))>>)

\* The response with a record of type 16 between two answers was decoded: the
\* record is UNHANDLED with its 3 octets of data, the answer behind it is there.
C23_Witness ==
    /\ done.op = "from_buffer"
    /\ done.ok
    /\ buffer = UnknownImage
    /\ done.value.answers[2].rtype = "UNHANDLED"
    /\ done.value.answers[2].data_len = 3
    /\ done.value.answers[3].addr = <<203, 0, 113, 10>>
    /\ position = 87

\* The additional section of a packet holds an A record of a host.
HasGlue(p, host) ==
    \E j \in DOMAIN p.resources :
        p.resources[j].rtype = "A" /\ p.resources[j].domain = host

\* The places in the authority section of the NS records whose domain is a
\* suffix of a name and whose host has no glue.
UngluedPlaces(p, name) ==
    {i \in DOMAIN p.authorities :
        /\ p.authorities[i].rtype = "NS"
        /\ IsSuffix(p.authorities[i].domain, name)
        /\ ~HasGlue(p, p.authorities[i].host)}

\* C24: get_unresolved_ns returns the host of the first NS record of the
\* authority section whose domain is a suffix of the name and whose host has no
\* A record in the additional section, and nothing when there is none; the host
\* it returns has no glue.
C24_UnresolvedNsWithoutGlue ==
    done.op = "get_unresolved_ns" =>
        /\ UngluedPlaces(packet, done.arg) = {} => ~done.value.some
        /\ \A i \in UngluedPlaces(packet, done.arg) :
                (\A j \in UngluedPlaces(packet, done.arg) : i <= j)
                    => done.value = Some(packet.authorities[i].host)
        /\ done.value.some => ~HasGlue(packet, done.value.value)

\* C25: every query sent upstream holds one question, with the name and the
\* type asked for (those of the request for a query of the outermost
\* resolution), has recursion_desired and response clear, and carries an id of
\* its own: no two queries sent while a request is handled have the same id.
C25_FreshQueryId ==
    \A i \in DOMAIN trace :
        /\ Len(trace[i].query.questions) = 1
        /\ trace[i].query.header.questions = 1
        /\ ~trace[i].query.header.recursion_desired
        /\ ~trace[i].query.header.response
        /\ trace[i].depth = 0 =>
            /\ QName(trace[i]) = inbound.packet.questions[Len(inbound.packet.questions)].q_name
            /\ QType(trace[i]) = inbound.packet.questions[Len(inbound.packet.questions)].q_type
        /\ \A j \in DOMAIN trace :
            i # j => trace[i].query.header.id # trace[j].query.header.id

\* The request received holds several questions.
SeveralQuestions == inbound.tag = "Ok" /\ Len(inbound.packet.questions) >= 2

\* The last question of the request received.
LastQuestion == inbound.packet.questions[Len(inbound.packet.questions)]

\* Every query of the outermost resolution asks the last question of the request.
OnlyLastResolved ==
    \A i \in DOMAIN trace :
        trace[i].depth = 0 =>
            (QName(trace[i]) = LastQuestion.q_name /\ QType(trace[i]) = LastQuestion.q_type)

\* C26 as claimed: for a request with several questions only the last question
\* is resolved, and the reply holds exactly that question, with a question count
\* of 1.
C26_LastQuestionOnly ==
    SeveralQuestions =>
        /\ OnlyLastResolved
        /\ reply.sent =>
            /\ reply.packet.questions = <<LastQuestion>>
            /\ reply.packet.header.questions = 1

\* C26, amended: for a request with several questions only the last question is
\* resolved; the reply to a resolution that returned a response holds exactly
\* that question, with a question count of 1, and the reply to a resolution that
\* returned an error holds no question, with a count of 0 and ServerFailure.
C26_LastQuestionWhenResolved ==
    SeveralQuestions =>
        /\ OnlyLastResolved
        /\ (pc = "reply" /\ result.tag = "Ok") => packet.questions = <<LastQuestion>>
        /\ (reply.sent /\ result.tag = "Ok") =>
            /\ reply.packet.questions = <<LastQuestion>>
            /\ reply.packet.header.questions = 1
        /\ (reply.sent /\ result.tag = "Err") =>
            /\ reply.packet.questions = << >>
            /\ reply.packet.header.questions = 0
            /\ reply.packet.header.rescode = "ServerFailure"

\* A reply was sent to a request with two questions after queries upstream: it
\* holds the second question alone.
C26_Witness ==
    /\ SeveralQuestions
    /\ reply.sent
    /\ result.tag = "Ok"
    /\ trace # << >>
    /\ reply.packet.questions = <<DnsQuestionNew("a.com", "A", "IN")>>
    /\ inbound.packet.questions[1] = DnsQuestionNew("ns.net", "A", "IN")

\* The four bits of the result code in the header that starts at an offset.
RescodeBits(at) == buffer[at + 3] % 16

\* C27: a header decoded has the result code NoError when the four bits of the
\* result code are 0 or 6 to 15, and the code of the number for 1 to 5; so a
\* response decoded from the bits 6 to 15 with an answer is one that the
\* resolution returns as an answer without an error; and the header decoded,
\* encoded again, has the bits 0 for those values, the bits as they were for 1 to
\* 5, and the four flags above them as they were.
C27_RescodeDefaultsToNoError ==
    /\ (done.op = "DnsHeader_read" /\ done.ok) =>
        /\ RescodeBits(done.start) \notin 1..5 => done.value.rescode = "NoError"
        /\ RescodeBits(done.start) \in 1..5
            => done.value.rescode = RescodeOrder[RescodeBits(done.start) + 1]
    /\ (/\ done.op = "from_buffer"
        /\ done.ok
        /\ RescodeBits(done.start) \in 6..15
        /\ U16At(done.start + 6) >= 1) => HasAnswer(done.value)
    /\ (done.op = "DnsHeader_write" /\ source.op = "DnsHeader_read") =>
        /\ done.ok
        /\ source.octets[4] % 16 \notin 1..5 => buffer[3] % 16 = 0
        /\ source.octets[4] % 16 \in 1..5 => buffer[3] % 16 = source.octets[4] % 16
        /\ buffer[3] \div 16 = source.octets[4] \div 16

\* A header with the result code bits 6 was decoded and encoded again: the bits
\* are 0 now.
C27_Witness ==
    /\ done.op = "DnsHeader_write"
    /\ source.op = "DnsHeader_read"
    /\ source.octets[4] % 16 = 6
    /\ source.value.rescode = "NoError"
    /\ buffer[3] % 16 = 0
    /\ position = HeaderLen

\* From an offset of a buffer labels lead, without a pointer, to a label whose
\* last octet is the last octet of the buffer.
RECURSIVE LabelEndsBuffer(_, _)
LabelEndsBuffer(buf, pos) ==
    IF pos >= BufferSize THEN FALSE
    ELSE IF buf[pos] = 0 \/ buf[pos] >= 192 THEN FALSE
    ELSE IF pos + buf[pos] = BufferSize - 1 THEN TRUE
    ELSE LabelEndsBuffer(buf, pos + 1 + buf[pos])

\* C28: get_range(start, length) fails exactly when start + length >= 512, with
\* EndOfBuffer, and gives the octets from start to start + length - 1 otherwise;
\* the position stays where it was.  So the range that ends with the last octet
\* is refused; the decode of a name with a label whose last octet is the last of
\* the buffer fails; and the octets of a reply whose encoding has filled the
\* buffer, 512 octets, are not given out to be sent.
C28_RangeBoundary ==
    /\ done.op = "get_range" =>
        /\ ~done.ok <=> done.arg[1] + done.arg[2] >= BufferSize
        /\ ~done.ok => done.error = EndOfBuffer
        /\ done.ok => done.value = [i \in 1..done.arg[2] |-> buffer[done.arg[1] + i - 1]]
        /\ AtRest => position = done.start
        /\ (done.arg[1] = 0 /\ AtRest) => (done.ok <=> (done.arg[2] < BufferSize))
    /\ (done.op = "read_qname" /\ LabelEndsBuffer(buffer, done.start)) =>
        (~done.ok /\ done.error = EndOfBuffer)

\* A reply of 512 octets was encoded, its last octet at offset 511, and the
\* range of its octets was refused.
C28_Witness ==
    /\ done.op = "get_range"
    /\ done.arg = <<0, BufferSize>>
    /\ ~done.ok
    /\ done.error = EndOfBuffer
    /\ position = BufferSize
    /\ U16At(4) = 1
    /\ U16At(6) = 1
    /\ buffer[BufferSize - 2] = 97
    /\ buffer[BufferSize - 1] = 0

====
